---- MODULE Spec2Model ----
(***************************************************************************)
(* A model of the googleapis client generator (src/generator/generator.ts, *)
(* lines 1-805): the resource flattener, primaryName, the conversion       *)
(* analyzer (#isConversionRequired), the type printer, the codec emitter,  *)
(* the method emitter and the module assembler.                            *)
(*                                                                         *)
(* Strings of the program are sequences of one-character strings, so that  *)
(* capitalising, slicing, prefix tests and replacement are computed.       *)
(* JSON objects are records whose DOMAIN holds the keys that are present   *)
(* ("format" in t is "format" \in DOMAIN t); JavaScript objects used as    *)
(* ordered maps (schemas, properties, resources, methods, parameters) are  *)
(* sequences of <<key, value>> pairs in insertion order.                   *)
(* The emitted text is a sequence of tokens [t, s, n]: t the token's role, *)
(* s its fixed text, n the name (a string of the document) it carries.     *)
(***************************************************************************)
EXTENDS Integers, Sequences, FiniteSets, TLC

\* ------------------------------------------------------------------------
\* Bounds of the model
\* ------------------------------------------------------------------------

\* members (properties and additionalProperties) of all the schemas of a
\* generated schema table together
MaxMembers == 2
\* how many times generate() is called on the same document object
MaxRuns == 2

\* the number of methods in a generated resource tree
MaxMethods == 2

\* the length of a generated API name and of a generated API title
MaxNameLen == 3

MaxTitleLen == 4

\* ------------------------------------------------------------------------
\* Strings
\* ------------------------------------------------------------------------

LowerLetters ==
    << "a", "b", "c", "d", "e", "f", "g", "h", "i", "j", "k", "l", "m",
       "n", "o", "p", "q", "r", "s", "t", "u", "v", "w", "x", "y", "z" >>

UpperLetters ==
    << "A", "B", "C", "D", "E", "F", "G", "H", "I", "J", "K", "L", "M",
       "N", "O", "P", "Q", "R", "S", "T", "U", "V", "W", "X", "Y", "Z" >>

\* the position of character c in alphabet abc, 0 when it is not in it
LetterIndex(abc, c) ==
    IF \E i \in DOMAIN abc : abc[i] = c
      THEN CHOOSE i \in DOMAIN abc : abc[i] = c
      ELSE 0

\* String.prototype.toUpperCase on one character
CharToUpper(c) ==
    IF LetterIndex(LowerLetters, c) > 0
      THEN UpperLetters[LetterIndex(LowerLetters, c)]
      ELSE c

\* String.prototype.toLowerCase on one character
CharToLower(c) ==
    IF LetterIndex(UpperLetters, c) > 0
      THEN LowerLetters[LetterIndex(UpperLetters, c)]
      ELSE c

toUpperCase(s) == [i \in DOMAIN s |-> CharToUpper(s[i])]

toLowerCase(s) == [i \in DOMAIN s |-> CharToLower(s[i])]

\* s.slice(from, to) with 0-based from (inclusive) and to (exclusive), both
\* clamped to the string as String.prototype.slice does for indexes >= 0
Slice(s, from, to) ==
    LET hi == IF to > Len(s) THEN Len(s) ELSE to
    IN  IF from >= hi THEN << >> ELSE SubSeq(s, from + 1, hi)

\* s.slice(from)
SliceFrom(s, from) == Slice(s, from, Len(s))

\* s.startsWith(w, index), index 0-based
StartsWith(s, w, index) ==
    /\ index + Len(w) <= Len(s)
    /\ \A i \in 1..Len(w) : s[index + i] = w[i]

\* s.includes(c) for a one-character c
Includes(s, c) == \E i \in DOMAIN s : s[i] = c

\* s.indexOf(w), 0-based, -1 when w does not occur
IndexOf(s, w) ==
    IF \E i \in 0..Len(s) : StartsWith(s, w, i)
      THEN CHOOSE i \in 0..Len(s) :
             /\ StartsWith(s, w, i)
             /\ \A j \in 0..(i - 1) : ~StartsWith(s, w, j)
      ELSE -1

\* s.replace(w, r) with a string pattern: the first occurrence only
Replace(s, w, r) ==
    LET at == IndexOf(s, w)
    IN  IF at < 0 THEN s
        ELSE Slice(s, 0, at) \o r \o SliceFrom(s, at + Len(w))

RECURSIVE Concat(_)
\* parts.join("")
Concat(parts) ==
    IF parts = << >> THEN << >> ELSE Head(parts) \o Concat(Tail(parts))

\* The collation String.prototype.localeCompare applies (the root collation):
\* strings are compared by their letters ignoring case first (punctuation
\* before letters), and only if those are equal by case, lower before upper.
PrimaryWeight(c) ==
    IF LetterIndex(LowerLetters, CharToLower(c)) > 0
      THEN LetterIndex(LowerLetters, CharToLower(c))
      ELSE 0

TertiaryWeight(c) == IF LetterIndex(UpperLetters, c) > 0 THEN 1 ELSE 0

RECURSIVE SeqCompare(_, _)
\* the lexicographic comparison of two sequences of numbers: -1, 0 or 1
SeqCompare(a, b) ==
    IF a = << >> /\ b = << >> THEN 0
    ELSE IF a = << >> THEN -1
    ELSE IF b = << >> THEN 1
    ELSE IF Head(a) < Head(b) THEN -1
    ELSE IF Head(a) > Head(b) THEN 1
    ELSE SeqCompare(Tail(a), Tail(b))

\* a.localeCompare(b): negative, zero or positive
localeCompare(a, b) ==
    LET p == SeqCompare([i \in DOMAIN a |-> PrimaryWeight(a[i])],
                        [i \in DOMAIN b |-> PrimaryWeight(b[i])])
    IN  IF p # 0 THEN p
        ELSE SeqCompare([i \in DOMAIN a |-> TertiaryWeight(a[i])],
                        [i \in DOMAIN b |-> TertiaryWeight(b[i])])

RECURSIVE InsertSorted(_, _)
\* entry x put into the sorted sequence of <<key, value>> entries s, after
\* every entry whose key is not greater than its own
InsertSorted(s, x) ==
    IF s = << >> THEN << x >>
    ELSE IF localeCompare(Head(s)[1], x[1]) <= 0
      THEN << Head(s) >> \o InsertSorted(Tail(s), x)
      ELSE << x >> \o s

RECURSIVE SortEntries(_)
\* entries.sort((a, b) => a[0].localeCompare(b[0])): a stable sort by key
SortEntries(s) ==
    IF s = << >> THEN << >>
    ELSE InsertSorted(SortEntries(SubSeq(s, 1, Len(s) - 1)), s[Len(s)])

\* ------------------------------------------------------------------------
\* JSON objects and ordered maps
\* ------------------------------------------------------------------------

\* o.f !== undefined, "f" in o
Has(o, f) == f \in DOMAIN o

\* o.f is truthy, for a field that holds a boolean when present
Flag(o, f) == IF f \in DOMAIN o THEN o[f] ELSE FALSE

\* Object.keys(m)
Keys(m) == [i \in DOMAIN m |-> m[i][1]]

\* Object.values(m)
Values(m) == [i \in DOMAIN m |-> m[i][2]]

\* k in m
HasKey(m, k) == \E i \in DOMAIN m : m[i][1] = k

\* m[k], for a key that is present
Lookup(m, k) == m[CHOOSE i \in DOMAIN m : m[i][1] = k][2]

\* m[k] = v : replaces the value of a present key in place, appends a new key
Assign(m, k, v) ==
    IF HasKey(m, k)
      THEN [i \in DOMAIN m |-> IF m[i][1] = k THEN << k, v >> ELSE m[i]]
      ELSE Append(m, << k, v >>)

\* { ...a, ...b }: the fields of a, overridden and extended by those of b
Spread(a, b) ==
    [f \in DOMAIN a \cup DOMAIN b |-> IF f \in DOMAIN b THEN b[f] ELSE a[f]]

\* ------------------------------------------------------------------------
\* Naming: camelCase, pascalCase, primaryName
\* ------------------------------------------------------------------------

\* A faulty capitalisation that upper-cases the whole part.
CapitalizeWholePart(n) == toUpperCase(n)

\* n[0].toUpperCase() + n.slice(1), for a non-empty n
Capitalize(n) == << CharToUpper(n[1]) >> \o SliceFrom(n, 1)

RECURSIVE CamelLoop(_, _)
\* the loop of camelCase over the parts left, name being what is built so far;
\* n[0] of an empty part is undefined and calling toUpperCase on it throws
CamelLoop(parts, name) ==
    IF parts = << >> THEN [ok |-> TRUE, val |-> name]
    ELSE LET n == Head(parts)
         IN  IF name # << >>
               THEN IF n = << >>
                      THEN [ok |-> FALSE, val |-> name]
                      ELSE CamelLoop(Tail(parts), name \o Capitalize(n))
               ELSE CamelLoop(Tail(parts), name \o n)

camelCase(parts) == CamelLoop(parts, << >>)

pascalCase(parts) ==
    IF \E i \in DOMAIN parts : parts[i] = << >>
      THEN [ok |-> FALSE, val |-> << >>]
      ELSE [ok |-> TRUE,
            val |-> Concat([i \in DOMAIN parts |-> Capitalize(parts[i])])]

\* the word the for loop of primaryName breaks on at position index: the
\* first word of words that name starts with there, ignoring case (0: none)
MatchingWord(name, words, index) ==
    IF \E i \in DOMAIN words :
         StartsWith(toLowerCase(name), toLowerCase(words[i]), index)
      THEN CHOOSE i \in DOMAIN words :
             /\ StartsWith(toLowerCase(name), toLowerCase(words[i]), index)
             /\ \A j \in 1..(i - 1) :
                  ~StartsWith(toLowerCase(name), toLowerCase(words[j]), index)
      ELSE 0

\* A faulty pass that takes the rest of the name from one character too far.
PrimaryNameStepDroppingOne(name, words, index) ==
    LET startIndex == index
        w == MatchingWord(name, words, index)
        index1 == IF w > 0 THEN index + Len(words[w]) ELSE index
        name1 == IF w > 0
                   THEN Slice(name, 0, startIndex) \o words[w]
                          \o SliceFrom(name, index1 + 1)
                   ELSE name
    IN  [name |-> name1,
         index |-> IF index1 = startIndex THEN index1 + 1 ELSE index1]

\* one pass of the while loop of primaryName, from position index
PrimaryNameStep(name, words, index) ==
    LET startIndex == index
        w == MatchingWord(name, words, index)
        index1 == IF w > 0 THEN index + Len(words[w]) ELSE index
        name1 == IF w > 0
                   THEN Slice(name, 0, startIndex) \o words[w]
                          \o SliceFrom(name, index1)
                   ELSE name
    IN  [name |-> name1,
         index |-> IF index1 = startIndex THEN index1 + 1 ELSE index1]

RECURSIVE PrimaryNameLoop(_, _, _)
PrimaryNameLoop(name, words, index) ==
    IF index < Len(name)
      THEN LET st == PrimaryNameStep(name, words, index)
           IN  PrimaryNameLoop(st.name, words, st.index)
      ELSE name

primaryName(name, words) == PrimaryNameLoop(name, words, 0)

RECURSIVE SplitLoop(_, _, _)
\* the words of s left of position i, cur being the word being read
SplitLoop(s, sep, cur) ==
    IF s = << >> THEN << cur >>
    ELSE IF Head(s) = sep
      THEN << cur >> \o SplitLoop(Tail(s), sep, << >>)
      ELSE SplitLoop(Tail(s), sep, Append(cur, Head(s)))

\* s.split(sep) for a one-character separator
Split(s, sep) == SplitLoop(s, sep, << >>)

\* ------------------------------------------------------------------------
\* Resource flattener
\* ------------------------------------------------------------------------

\* A faulty partition that does not look at the location: every parameter
\* goes to both lists.
ParamsAnywhere(params, location) == params

\* the parameters of one location, in the order of Object.entries
RECURSIVE ParamsAt(_, _)
ParamsAt(params, location) ==
    IF params = << >> THEN << >>
    ELSE LET rest == ParamsAt(Tail(params), location)
             param == Head(params)[2]
         IN  IF Has(param, "location") /\ param.location = location
               THEN << Head(params) >> \o rest
               ELSE rest

\* the method record #visitResource pushes for method `method` at `parts`
MethodRecord(parts, method) ==
    LET camel == camelCase(parts)
        pascal == pascalCase(parts)
        hasParams == Has(method, "parameters")
        queryParams == IF hasParams
                         THEN SortEntries(ParamsAt(method.parameters, "query"))
                         ELSE << >>
        pathParams == IF hasParams
                        THEN SortEntries(ParamsAt(method.parameters, "path"))
                        ELSE << >>
    IN  [ok |-> camel.ok /\ pascal.ok,
         val |-> Spread(method,
                        [camelCaseName |-> camel.val,
                         pascalCaseName |-> pascal.val,
                         queryParams |-> queryParams,
                         pathParams |-> pathParams])]

RECURSIVE VisitMethods(_, _)
\* the loop over Object.entries(resource.methods)
VisitMethods(names, entries) ==
    IF entries = << >> THEN [ok |-> TRUE, val |-> << >>]
    ELSE LET m == MethodRecord(Append(names, Head(entries)[1]),
                               Head(entries)[2])
             rest == VisitMethods(names, Tail(entries))
         IN  IF ~m.ok THEN [ok |-> FALSE, val |-> << >>]
             ELSE [ok |-> rest.ok, val |-> << m.val >> \o rest.val]

RECURSIVE visitResource(_, _)
RECURSIVE VisitChildren(_, _)
\* the loop over Object.entries(resource.resources)
VisitChildren(names, entries) ==
    IF entries = << >> THEN [ok |-> TRUE, val |-> << >>]
    ELSE LET c == visitResource(Append(names, Head(entries)[1]),
                                Head(entries)[2])
             rest == VisitChildren(names, Tail(entries))
         IN  IF ~c.ok THEN [ok |-> FALSE, val |-> << >>]
             ELSE [ok |-> rest.ok, val |-> c.val \o rest.val]

\* the method records #visitResource pushes, in order; ok is FALSE when it
\* throws
visitResource(names, resource) ==
    LET own == IF Has(resource, "methods")
                 THEN VisitMethods(names, resource.methods)
                 ELSE [ok |-> TRUE, val |-> << >>]
        sub == IF Has(resource, "resources")
                 THEN VisitChildren(names, resource.resources)
                 ELSE [ok |-> TRUE, val |-> << >>]
    IN  IF ~own.ok THEN [ok |-> FALSE, val |-> << >>]
        ELSE [ok |-> sub.ok, val |-> own.val \o sub.val]

\* A faulty constructor that leaves out the sort of #methods.
FlattenedInDocumentOrder(schema) ==
    IF Has(schema, "resources")
      THEN VisitChildren(<< >>, schema.resources)
      ELSE [ok |-> TRUE, val |-> << >>]

\* #methods after the constructor's loop over the top-level resources and its
\* sort by camelCaseName
FlattenedMethods(schema) ==
    LET all == IF Has(schema, "resources")
                 THEN VisitChildren(<< >>, schema.resources)
                 ELSE [ok |-> TRUE, val |-> << >>]
        keyed == [i \in DOMAIN all.val |->
                    << all.val[i].camelCaseName, all.val[i] >>]
    IN  [ok |-> all.ok, val |-> Values(SortEntries(keyed))]

\* ------------------------------------------------------------------------
\* Conversion analyzer
\* ------------------------------------------------------------------------

\* t.type, "undefined" when the node has none
TypeOf(t) == IF Has(t, "type") THEN t.type ELSE "undefined"

\* The result of a call of #isConversionRequired: ok is FALSE when it threw,
\* val is what it returned. visited is the visited set afterwards, which the
\* callee shares with its caller (one Set object per top-level query); calls
\* counts the recursive calls made through a $ref (the visited.add calls).
Threw(visited, calls) ==
    [ok |-> FALSE, val |-> FALSE, visited |-> visited, calls |-> calls]

Answer(val, visited, calls) ==
    [ok |-> TRUE, val |-> val, visited |-> visited, calls |-> calls]

\* the result r of a nested call, after `calls` earlier calls
After(calls, r) == [r EXCEPT !.calls = r.calls + calls]

RECURSIVE isConversionRequiredIn(_, _, _)
RECURSIVE AnyPropRequiresConversion(_, _, _)
\* the for loop over Object.values(t.properties) of the object branch
AnyPropRequiresConversion(schemas, props, visited) ==
    IF props = << >> THEN Answer(FALSE, visited, 0)
    ELSE LET prop == Head(props)
         IN  IF Flag(prop, "readOnly")
               THEN AnyPropRequiresConversion(schemas, Tail(props), visited)
               ELSE LET r == isConversionRequiredIn(schemas, prop, visited)
                    IN  IF ~r.ok \/ r.val THEN r
                        ELSE After(r.calls,
                                   AnyPropRequiresConversion(schemas,
                                                             Tail(props),
                                                             r.visited))

\* the object branch of #isConversionRequired
ObjectRequiresConversion(schemas, t, visited) ==
    IF Has(t, "additionalProperties")
      THEN isConversionRequiredIn(schemas, t.additionalProperties, visited)
    ELSE IF Has(t, "properties")
      THEN AnyPropRequiresConversion(schemas, Values(t.properties), visited)
    ELSE Answer(FALSE, visited, 0)

\* A faulty $ref branch that adds the name to a copy of the visited set, so
\* that the caller's set does not learn what the callee visited.
RefRequiresConversionOnACopy(schemas, t, visited) ==
    IF t.ref \in visited THEN Answer(FALSE, visited, 0)
    ELSE IF ~HasKey(schemas, t.ref) THEN Threw(visited, 1)
    ELSE LET r == isConversionRequiredIn(schemas, Lookup(schemas, t.ref),
                                         visited \cup {t.ref})
         IN  [r EXCEPT !.visited = visited, !.calls = r.calls + 1]

\* A faulty $ref branch that answers true for a name already visited.
RefRequiresConversionTrueOnCycle(schemas, t, visited) ==
    IF t.ref \in visited THEN Answer(TRUE, visited, 0)
    ELSE IF ~HasKey(schemas, t.ref) THEN Threw(visited \cup {t.ref}, 1)
    ELSE After(1, isConversionRequiredIn(schemas, Lookup(schemas, t.ref),
                                         visited \cup {t.ref}))

\* the $ref branch of #isConversionRequired; reading .type of the undefined
\* schemas[t.$ref] of an unresolved reference throws a TypeError
RefRequiresConversion(schemas, t, visited) ==
    IF t.ref \in visited THEN Answer(FALSE, visited, 0)
    ELSE IF ~HasKey(schemas, t.ref) THEN Threw(visited \cup {t.ref}, 1)
    ELSE After(1, isConversionRequiredIn(schemas, Lookup(schemas, t.ref),
                                         visited \cup {t.ref}))

\* #isConversionRequired(t, visited) with the schema table as it is at the call
isConversionRequiredIn(schemas, t, visited) ==
    CASE TypeOf(t) = "any" -> Answer(FALSE, visited, 0)
      [] TypeOf(t) = "array" ->
           IF Has(t, "items")
             THEN isConversionRequiredIn(schemas, t.items, visited)
             ELSE Threw(visited, 0)
      [] TypeOf(t) \in {"boolean", "number", "integer"} ->
           Answer(FALSE, visited, 0)
      [] TypeOf(t) = "string" -> Answer(Has(t, "format"), visited, 0)
      [] TypeOf(t) = "object" -> ObjectRequiresConversion(schemas, t, visited)
      [] OTHER ->
           IF Has(t, "ref")
             THEN RefRequiresConversion(schemas, t, visited)
             ELSE Answer(TRUE, visited, 0)

\* #isConversionRequired(t): a top-level query, with a new visited set
isConversionRequired(schemas, t) == isConversionRequiredIn(schemas, t, {})

\* ------------------------------------------------------------------------
\* The writer: emitted text as tokens
\* ------------------------------------------------------------------------

\* a piece of fixed text
Lit(s) == [t |-> "lit", s |-> s, n |-> << >>]

\* a piece of text that carries a string of the document, in role t
Tok(t, n) == [t |-> t, s |-> "", n |-> n]

\* a name written after a fixed prefix: serialize<X>, deserialize<X>
Pre(t, s, n) == [t |-> t, s |-> s, n |-> n]

\* What an emitting method did: ok is FALSE when it threw; toks is the text
\* it wrote; enc and dec tell whether it set #needsBase64Encoder / Decoder.
Wrote(toks) == [ok |-> TRUE, toks |-> toks, enc |-> FALSE, dec |-> FALSE]

Failed == [ok |-> FALSE, toks |-> << >>, enc |-> FALSE, dec |-> FALSE]

\* b run after a; nothing of b happens when a threw
Then(a, b) ==
    IF ~a.ok THEN Failed
    ELSE IF ~b.ok THEN Failed
    ELSE [ok |-> TRUE, toks |-> a.toks \o b.toks,
          enc |-> a.enc \/ b.enc, dec |-> a.dec \/ b.dec]

\* #writeIdent(ident)
writeIdent(ident) ==
    IF Includes(ident, ".")
      THEN << Lit("["), Tok("quoted", ident), Lit("]") >>
      ELSE << Tok("bare", ident) >>

\* #writeIndex(ident)
writeIndex(ident) ==
    IF Includes(ident, ".")
      THEN << Lit("["), Tok("quoted", ident), Lit("]") >>
      ELSE << Lit("."), Tok("bare", ident) >>

\* ------------------------------------------------------------------------
\* Type printer
\* ------------------------------------------------------------------------

RECURSIVE JoinEnum(_)
\* t.enum.join(' | ')
JoinEnum(values) ==
    IF values = << >> THEN << >>
    ELSE IF Len(values) = 1 THEN << Tok("enum", Head(values)) >>
    ELSE << Tok("enum", Head(values)), Lit(" | ") >> \o JoinEnum(Tail(values))

\* tsFormat of the string branch of #type, before the repeated suffix
StringFormat(t) ==
    IF Has(t, "format")
      THEN CASE t.format = "byte" -> << Lit("Uint8Array") >>
             [] t.format \in {"int64", "uint64"} -> << Lit("bigint") >>
             [] t.format \in {"date", "date-time", "google-datetime"} ->
                  << Lit("Date") >>
             [] t.format = "google-duration" -> << Lit("number") >>
             [] OTHER -> << Lit("string") >>
    ELSE IF Has(t, "enum")
      THEN << Lit("(") >> \o JoinEnum(t.enum) \o << Lit(")") >>
    ELSE << Lit("string") >>

\* tsComment of the string branch of #type
StringComment(t) ==
    IF Has(t, "format") /\ t.format = "google-duration"
      THEN << Lit(" /* Duration */") >>
    ELSE IF Has(t, "format") /\ t.format = "google-fieldmask"
      THEN << Lit(" /* FieldMask */") >>
    ELSE << >>

\* the string branch of #type
StringType(t) ==
    StringFormat(t)
      \o (IF Flag(t, "repeated") THEN << Lit("[]") >> ELSE << >>)
      \o StringComment(t)

RECURSIVE type(_)
RECURSIVE TypeMembers(_)
\* the loop of #type over the sorted properties of an inline object type
TypeMembers(props) ==
    IF props = << >> THEN Wrote(<< >>)
    ELSE LET name == Head(props)[1]
             prop == Head(props)[2]
         IN  Then(Wrote(writeIdent(name)
                          \o (IF ~Flag(prop, "required")
                                THEN << Lit("?") >> ELSE << >>)
                          \o << Lit(": ") >>),
               Then(type(prop),
                 Then(Wrote(<< Lit(";") >>), TypeMembers(Tail(props)))))

\* #type(t): the type expression written for node t
type(t) ==
    CASE TypeOf(t) = "any" -> Wrote(<< Lit("any") >>)
      [] TypeOf(t) = "array" ->
           IF Has(t, "items")
             THEN Then(type(t.items), Wrote(<< Lit("[]") >>))
             ELSE Failed
      [] TypeOf(t) = "boolean" -> Wrote(<< Lit("boolean") >>)
      [] TypeOf(t) \in {"number", "integer"} -> Wrote(<< Lit("number") >>)
      [] TypeOf(t) = "string" -> Wrote(StringType(t))
      [] TypeOf(t) = "object" ->
           Then(Wrote(<< Lit("{") >>),
             Then(IF Has(t, "properties")
                    THEN TypeMembers(SortEntries(t.properties))
                    ELSE Wrote(<< >>),
               Then(IF Has(t, "additionalProperties")
                      THEN Then(Wrote(<< Lit("[key: string]: ") >>),
                                type(t.additionalProperties))
                      ELSE Wrote(<< >>),
                 Wrote(<< Lit("}") >>))))
      [] OTHER ->
           IF Has(t, "ref") THEN Wrote(<< Tok("typeref", t.ref) >>)
           ELSE Failed

\* ------------------------------------------------------------------------
\* Codec emitter
\* ------------------------------------------------------------------------

\* JSON.stringify(name) in `${ident}[${JSON.stringify(name)}]`
Indexed(ident, name) == ident \o << Lit("["), Tok("quoted", name), Lit("]") >>

\* assert((t.properties?.length ?? 0) === 0): properties is a map, so its
\* .length is the property named "length" if there is one, undefined if not
PropertiesLengthIsZero(t) ==
    ~(Has(t, "properties")
        /\ HasKey(t.properties, << "l", "e", "n", "g", "t", "h" >>))

\* the string branch of #writeDeserializer, for a node that has a format
DeserializeString(t, ident) ==
    CASE t.format = "byte" ->
           [ok |-> TRUE, enc |-> FALSE, dec |-> TRUE,
            toks |-> << Lit("decodeBase64(") >> \o ident
                       \o << Lit(" as string)") >>]
      [] t.format \in {"int64", "uint64"} ->
           Wrote(<< Lit("BigInt(") >> \o ident \o << Lit(")") >>)
      [] t.format \in {"date", "date-time", "google-datetime"} ->
           Wrote(<< Lit("new Date(") >> \o ident \o << Lit(")") >>)
      [] t.format \in {"google-duration", "google-fieldmask"} -> Wrote(ident)
      [] OTHER -> Wrote(<< >>)

\* the string branch of #writeSerializer, for a node that has a format
SerializeString(t, ident) ==
    CASE t.format = "byte" ->
           [ok |-> TRUE, enc |-> TRUE, dec |-> FALSE,
            toks |-> << Lit("encodeBase64(") >> \o ident \o << Lit(")") >>]
      [] t.format \in {"int64", "uint64"} ->
           Wrote(<< Lit("String(") >> \o ident \o << Lit(")") >>)
      [] t.format \in {"date", "date-time", "google-datetime"} ->
           Wrote(ident \o << Lit(".toISOString()") >>)
      [] t.format \in {"google-duration", "google-fieldmask"} -> Wrote(ident)
      [] OTHER -> Wrote(<< >>)

RECURSIVE writeCodec(_, _, _, _)
RECURSIVE CodecMembersOfBothAlike(_, _, _, _)
\* A faulty properties loop that skips readOnly properties in the
\* deserializer as it does in the serializer.
CodecMembersOfBothAlike(schemas, dir, props, ident) ==
    IF props = << >> THEN Wrote(<< >>)
    ELSE LET name == Head(props)[1]
             prop == Head(props)[2]
             q == isConversionRequired(schemas, prop)
             rest == CodecMembersOfBothAlike(schemas, dir, Tail(props), ident)
         IN  IF ~q.ok THEN Failed
             ELSE IF ~q.val \/ Flag(prop, "readOnly") THEN rest
             ELSE Then(Wrote(writeIdent(name) \o writeIdent(<< ":", " " >>)),
                    Then(IF Flag(prop, "required")
                           THEN writeCodec(schemas, dir, prop,
                                           Indexed(ident, name))
                           ELSE Then(Wrote(Indexed(ident, name)
                                             \o << Lit(" !== undefined ? ") >>),
                                  Then(writeCodec(schemas, dir, prop,
                                                  Indexed(ident, name)),
                                       Wrote(<< Lit(" : undefined") >>))),
                      Then(Wrote(<< Lit(",") >>), rest)))

RECURSIVE CodecMembers(_, _, _, _)
\* the loop over the sorted properties in the object branch of
\* #writeDeserializer (dir = "deserialize") and #writeSerializer
\* (dir = "serialize"); only the serializer skips readOnly properties
CodecMembers(schemas, dir, props, ident) ==
    IF props = << >> THEN Wrote(<< >>)
    ELSE LET name == Head(props)[1]
             prop == Head(props)[2]
             q == isConversionRequired(schemas, prop)
             rest == CodecMembers(schemas, dir, Tail(props), ident)
         IN  IF ~q.ok THEN Failed
             ELSE IF ~q.val THEN rest
             ELSE IF dir = "serialize" /\ Flag(prop, "readOnly") THEN rest
             ELSE Then(Wrote(writeIdent(name) \o writeIdent(<< ":", " " >>)),
                    Then(IF Flag(prop, "required")
                           THEN writeCodec(schemas, dir, prop,
                                           Indexed(ident, name))
                           ELSE Then(Wrote(Indexed(ident, name)
                                             \o << Lit(" !== undefined ? ") >>),
                                  Then(writeCodec(schemas, dir, prop,
                                                  Indexed(ident, name)),
                                       Wrote(<< Lit(" : undefined") >>))),
                      Then(Wrote(<< Lit(",") >>), rest)))

\* the object branch of #writeDeserializer and of #writeSerializer
ObjectCodec(schemas, dir, t, ident) ==
    IF Has(t, "additionalProperties")
      THEN IF ~PropertiesLengthIsZero(t) THEN Failed
           ELSE Then(Wrote(<< Lit("Object.fromEntries(Object.entries(") >>
                             \o ident
                             \o << Lit(").map(([k, v]: [string, any]) => ([k, ") >>),
                  Then(writeCodec(schemas, dir, t.additionalProperties,
                                  << Lit("v") >>),
                       Wrote(<< Lit("])))") >>)))
      ELSE Then(Wrote(<< Lit("{") >>),
             Then(IF Has(t, "properties")
                    THEN Then(Wrote(<< Lit("...") >> \o ident \o << Lit(",") >>),
                              CodecMembers(schemas, dir,
                                           SortEntries(t.properties), ident))
                    ELSE Wrote(<< >>),
                  Wrote(<< Lit("}") >>)))

\* #writeDeserializer(t, ident) for dir = "deserialize" and
\* #writeSerializer(t, ident) for dir = "serialize": the two methods differ
\* in the leaf conversions, the readOnly skip and the name they call
writeCodec(schemas, dir, t, ident) ==
    LET q == isConversionRequired(schemas, t)
    IN  IF ~q.ok THEN Failed
        ELSE IF ~q.val THEN Wrote(ident)
        ELSE CASE TypeOf(t) = "array" ->
                    IF ~Has(t, "items") THEN Failed
                    ELSE Then(Wrote(ident \o << Lit(".map((item: any) => (") >>),
                           Then(writeCodec(schemas, dir, t.items,
                                           << Lit("item") >>),
                                Wrote(<< Lit("))") >>)))
               [] TypeOf(t) = "string" ->
                    IF ~Has(t, "format") THEN Wrote(ident)
                    ELSE IF dir = "serialize" THEN SerializeString(t, ident)
                    ELSE DeserializeString(t, ident)
               [] TypeOf(t) = "object" -> ObjectCodec(schemas, dir, t, ident)
               [] OTHER ->
                    IF Has(t, "ref")
                      THEN Wrote(<< Pre("call", dir, t.ref), Lit("(") >>
                                   \o ident \o << Lit(")") >>)
                      ELSE Failed

writeDeserializer(schemas, t, ident) ==
    writeCodec(schemas, "deserialize", t, ident)

writeSerializer(schemas, t, ident) ==
    writeCodec(schemas, "serialize", t, ident)

\* ------------------------------------------------------------------------
\* The emitted codecs, evaluated
\* ------------------------------------------------------------------------

\* JavaScript values: a string, undefined, an object (a function from its
\* own keys to values), an array, and the values the leaf conversions make
StringValue(s) == [k |-> "string", v |-> s]

UndefinedValue == [k |-> "undefined"]

ObjectValue(f) == [k |-> "object", v |-> f]

ArrayValue(items) == [k |-> "array", v |-> items]

\* the object without a key
EmptyObject == ObjectValue([n \in {} |-> UndefinedValue])

\* `${ident}[${JSON.stringify(name)}]`: undefined for a key the object lacks
IndexValue(data, name) ==
    IF data.k = "object" /\ name \in DOMAIN data.v THEN data.v[name]
    ELSE UndefinedValue

\* { ...o, name: val }
WithMember(o, name, val) ==
    [n \in DOMAIN o \cup {name} |-> IF n = name THEN val ELSE o[n]]

\* A faulty leaf conversion that gives google-duration a runtime type of its
\* own: the deserializer makes a number of the text, the serializer writes
\* the value as it is.
EvaluateDurationAsNumber(dir, t, v) ==
    IF dir = "deserialize" /\ t.format = "google-duration"
      THEN [k |-> "number", v |-> v.v]
      ELSE v

\* what the emitted leaf conversion of a formatted string gives for v:
\* decodeBase64(v) and encodeBase64(v), BigInt(v) and String(v), new Date(v)
\* and v.toISOString(), and v itself for google-duration and
\* google-fieldmask
EvaluateString(dir, t, v) ==
    CASE t.format = "byte" ->
           IF dir = "deserialize" THEN [k |-> "Uint8Array", v |-> v.v]
           ELSE StringValue(v.v)
      [] t.format \in {"int64", "uint64"} ->
           IF dir = "deserialize" THEN [k |-> "bigint", v |-> v.v]
           ELSE StringValue(v.v)
      [] t.format \in {"date", "date-time", "google-datetime"} ->
           IF dir = "deserialize" THEN [k |-> "Date", v |-> v.v]
           ELSE StringValue(v.v)
      [] t.format \in {"google-duration", "google-fieldmask"} -> v
      [] OTHER -> UndefinedValue

RECURSIVE Evaluate(_, _, _, _)
RECURSIVE EvaluateMembers(_, _, _, _, _)
\* the members the emitted record literal adds to the spread of data, for
\* the sorted properties left: `name: convert(data[name])` for a required
\* property, `name: data[name] !== undefined ? convert(data[name]) :
\* undefined` for any other
EvaluateMembers(schemas, dir, props, data, o) ==
    IF props = << >> THEN o
    ELSE LET name == Head(props)[1]
             prop == Head(props)[2]
             q == isConversionRequired(schemas, prop)
             at == IndexValue(data, name)
         IN  IF ~q.val \/ (dir = "serialize" /\ Flag(prop, "readOnly"))
               THEN EvaluateMembers(schemas, dir, Tail(props), data, o)
               ELSE EvaluateMembers(schemas, dir, Tail(props), data,
                      WithMember(o, name,
                        IF Flag(prop, "required") \/ at # UndefinedValue
                          THEN Evaluate(schemas, dir, prop, at)
                          ELSE UndefinedValue))

\* the value of the expression #writeDeserializer(t, ident)
\* (dir = "deserialize") or #writeSerializer(t, ident) (dir = "serialize")
\* writes, with ident bound to v; a call of serializeX or deserializeX is
\* the expression written for the schema X with data bound to the argument
Evaluate(schemas, dir, t, v) ==
    LET q == isConversionRequired(schemas, t)
    IN  IF ~q.ok \/ ~q.val THEN v
        ELSE CASE TypeOf(t) = "array" ->
                    ArrayValue([i \in DOMAIN v.v |->
                                  Evaluate(schemas, dir, t.items, v.v[i])])
               [] TypeOf(t) = "string" ->
                    IF ~Has(t, "format") THEN v
                    ELSE EvaluateString(dir, t, v)
               [] TypeOf(t) = "object" ->
                    IF Has(t, "additionalProperties")
                      THEN ObjectValue(
                             [n \in DOMAIN v.v |->
                                Evaluate(schemas, dir,
                                         t.additionalProperties, v.v[n])])
                      ELSE ObjectValue(
                             IF Has(t, "properties")
                               THEN EvaluateMembers(schemas, dir,
                                      SortEntries(t.properties), v,
                                      IF v.k = "object" THEN v.v
                                      ELSE EmptyObject.v)
                               ELSE EmptyObject.v)
               [] OTHER ->
                    IF Has(t, "ref")
                      THEN Evaluate(schemas, dir, Lookup(schemas, t.ref), v)
                      ELSE v

RECURSIVE Stringify(_)
\* the value JSON.stringify puts on the wire for v, as JSON.parse reads it
\* back: a member of an object whose value is undefined is left out
Stringify(v) ==
    IF v.k = "object"
      THEN ObjectValue([n \in { m \in DOMAIN v.v : v.v[m] # UndefinedValue }
                          |-> Stringify(v.v[n])])
    ELSE IF v.k = "array"
      THEN ArrayValue([i \in DOMAIN v.v |-> Stringify(v.v[i])])
    ELSE v

\* ------------------------------------------------------------------------
\* Doc comments
\* ------------------------------------------------------------------------

\* a description that is present and not the empty string: if (x.description)
Truthy(o, f) == Has(o, f) /\ o[f] # << >>

RECURSIVE ReplaceAll(_, _, _)
\* s.replaceAll(w, r) for a non-empty w: the occurrences are taken from the
\* left and do not overlap
ReplaceAll(s, w, r) ==
    LET i == IndexOf(s, w)
    IN  IF i = -1 THEN s
        ELSE Slice(s, 0, i) \o r \o ReplaceAll(SliceFrom(s, i + Len(w)), w, r)

\* #escapeDocs(s)
escapeDocs(s) == ReplaceAll(s, << "*", "/" >>, << "*", "\\", "/" >>)

\* the characters the regular expression \s matches, of those modelled
IsSpace(c) == c \in {" ", "\n", "\t"}

\* the places of s where white space stands
Spaces(s) == { i \in DOMAIN s : IsSpace(s[i]) }

\* the first place of s that is in the set, Len(s) + 1 when none is
FirstOf(s, places) ==
    IF places = { } THEN Len(s) + 1
    ELSE CHOOSE i \in places : \A j \in places : i <= j

RECURSIVE SplitSpaces(_, _, _)
\* s.split(/\s+/): cur is the word being read, inGap whether the last
\* character read was white space
SplitSpaces(s, cur, inGap) ==
    IF inGap
      THEN LET k == FirstOf(s, DOMAIN s \ Spaces(s))
           IN  IF k > Len(s) THEN << cur >>
               ELSE SplitSpaces(SubSeq(s, k, Len(s)), cur, FALSE)
      ELSE LET k == FirstOf(s, Spaces(s))
               word == cur \o SubSeq(s, 1, k - 1)
           IN  IF k > Len(s) THEN << word >>
               ELSE << word >>
                      \o SplitSpaces(SubSeq(s, k + 1, Len(s)), << >>, TRUE)

RECURSIVE TrimStart(_)
TrimStart(s) ==
    IF s # << >> /\ IsSpace(Head(s)) THEN TrimStart(Tail(s)) ELSE s

RECURSIVE TrimEnd(_)
TrimEnd(s) ==
    IF s # << >> /\ IsSpace(s[Len(s)])
      THEN TrimEnd(SubSeq(s, 1, Len(s) - 1))
      ELSE s

\* s.trim()
Trim(s) == TrimEnd(TrimStart(s))

\* A faulty limit that forgets the indentation of the comment.
DocMaxLenAtLevelZero(level) == 80 - 3

\* maxLen of #writeDocComment at indentation level `level`
DocMaxLen(level) == 80 - 3 - (level * 2)

RECURSIVE WrapWords(_, _, _)
\* the loop of #writeDocComment over the words left; line is the line being
\* filled; the value is `lines` after the final push
WrapWords(words, line, maxLen) ==
    IF words = << >> THEN << Trim(line) >>
    ELSE LET word == Head(words)
         IN  IF Len(line) + Len(word) + 1 > maxLen
               THEN << Trim(line) >> \o WrapWords(Tail(words), word, maxLen)
               ELSE WrapWords(Tail(words), line \o << " " >> \o word, maxLen)

RECURSIVE ParamDocs(_)
\* the @param lines: the parameter's description is written as it is
ParamDocs(params) ==
    IF params = << >> THEN << >>
    ELSE (IF Truthy(Head(params), "description")
            THEN << Tok("docparam",
                        Head(params).name \o << " " >>
                          \o Head(params).description) >>
            ELSE << >>)
           \o ParamDocs(Tail(params))

\* #writeDocComment(s, params) at indentation level `level`; hasParams tells
\* whether the params argument was given
writeDocComment(s, hasParams, params, level) ==
    LET lines == WrapWords(SplitSpaces(escapeDocs(s), << >>, FALSE), << >>,
                           DocMaxLen(level))
    IN  << Lit("/**") >>
          \o [i \in DOMAIN lines |-> Tok("docline", lines[i])]
          \o (IF hasParams THEN << Lit(" *") >> \o ParamDocs(params)
              ELSE << >>)
          \o << Lit(" */") >>

\* ------------------------------------------------------------------------
\* Method emitter
\* ------------------------------------------------------------------------

OptionsSuffix == << "O", "p", "t", "i", "o", "n", "s" >>

\* `${method.pascalCaseName}Options`
OptionsName(method) == method.pascalCaseName \o OptionsSuffix

\* the text after "Additional options for " in the description of the
\* synthetic schema: `${this.#name}#${method.camelCaseName}.`
OptionsDescription(name, method) ==
    << "A", "d", "d", "i", "t", "i", "o", "n", "a", "l", " ",
       "o", "p", "t", "i", "o", "n", "s", " ", "f", "o", "r", " " >>
      \o name \o << "#" >> \o method.camelCaseName \o << "." >>

\* the synthetic schema #writeMethod builds for the query parameters
OptionsSchema(name, method) ==
    [id |-> OptionsName(method),
     type |-> "object",
     description |-> OptionsDescription(name, method),
     properties |-> method.queryParams]

\* the schema table after the first part of #writeMethod
SchemasAfterMethod(schemas, name, method) ==
    IF method.queryParams # << >>
      THEN Assign(schemas, OptionsName(method), OptionsSchema(name, method))
      ELSE schemas

\* A faulty #writeMethod that leaves out assert(param.required).
PathParamsUnchecked(method) == TRUE

\* every path parameter passes assert(param.required)
PathParamsRequired(method) ==
    \A i \in DOMAIN method.pathParams :
      Flag(method.pathParams[i][2], "required")

\* the params list #writeMethod builds: path parameters, req, opts
MethodParams(method) ==
    [i \in DOMAIN method.pathParams |->
       LET param == method.pathParams[i][2]
           base == [name |-> method.pathParams[i][1], schema |-> param]
       IN  IF Has(param, "description")
             THEN Spread(base, [description |-> param.description])
             ELSE base]
      \o (IF Has(method, "request")
            THEN << [name |-> << "r", "e", "q" >>,
                     schema |-> method.request] >>
            ELSE << >>)
      \o (IF method.queryParams # << >>
            THEN << [name |-> << "o", "p", "t", "s" >>,
                     schema |-> [ref |-> OptionsName(method)],
                     default |-> TRUE] >>
            ELSE << >>)

RECURSIVE WriteParamsFrom(_, _)
\* #writeParams(params), first telling whether the last character written
\* is still the opening parenthesis
WriteParamsFrom(params, first) ==
    IF params = << >> THEN Wrote(<< >>)
    ELSE LET param == Head(params)
         IN  Then(Wrote((IF first THEN << >> ELSE << Lit(", ") >>)
                          \o << Tok("bare", param.name), Lit(": ") >>),
               Then(type(param.schema),
                 Then(Wrote(IF Flag(param, "default")
                              THEN << Lit(" = {}") >> ELSE << >>),
                      WriteParamsFrom(Tail(params), FALSE))))

writeParams(params) == WriteParamsFrom(params, TRUE)

RECURSIVE SerializeParams(_, _)
\* the "serialize options" loop of #writeMethod
SerializeParams(schemas, params) ==
    IF params = << >> THEN Wrote(<< >>)
    ELSE LET param == Head(params)
             q == isConversionRequired(schemas, param.schema)
             rest == SerializeParams(schemas, Tail(params))
         IN  IF ~q.ok THEN Failed
             ELSE IF ~q.val THEN rest
             ELSE Then(Wrote(<< Tok("bare", param.name), Lit(" = ") >>),
                    Then(writeSerializer(schemas, param.schema,
                                         << Tok("bare", param.name) >>),
                      Then(Wrote(<< Lit(";") >>), rest)))

\* `\${ ${name} }`: the interpolation a path token is replaced by
Interpolation(name) == << "$", "{", " " >> \o name \o << " ", "}" >>

RECURSIVE UrlPath(_, _)
\* the "construct url" loop of #writeMethod over the path parameters left
UrlPath(path, pathParams) ==
    IF pathParams = << >> THEN path
    ELSE LET name == Head(pathParams)[1]
             plus == Replace(path, << "{", "+" >> \o name \o << "}" >>,
                             Interpolation(name))
             plain == Replace(plus, << "{" >> \o name \o << "}" >>,
                              Interpolation(name))
         IN  UrlPath(plain, Tail(pathParams))

RECURSIVE QueryParams(_)
\* the "add options as query params" loop of #writeMethod
QueryParams(queryParams) ==
    IF queryParams = << >> THEN << >>
    ELSE LET name == Head(queryParams)[1]
             isArray == Flag(Head(queryParams)[2], "repeated")
         IN  << Lit("if (opts") >> \o writeIndex(name)
               \o << Lit(" !== undefined)"), Lit("{") >>
               \o (IF isArray
                     THEN << Lit("for (const "), Tok("bare", name),
                             Lit(" of opts."), Tok("bare", name), Lit(")"),
                             Lit("{"), Lit("url.searchParams.append("),
                             Tok("quoted", name), Lit(", String("),
                             Tok("bare", name), Lit("));"), Lit("}") >>
                     ELSE << Lit("url.searchParams.append("),
                             Tok("quoted", name), Lit(", String(opts") >>
                            \o writeIndex(name) \o << Lit("));") >>)
               \o << Lit("}") >>
               \o QueryParams(Tail(queryParams))

\* `${method.response.$ref!}`: the text "undefined" for a response that is
\* no reference
ResponseRef(method) ==
    IF Has(method.response, "ref") THEN method.response.ref
    ELSE << "u", "n", "d", "e", "f", "i", "n", "e", "d" >>

\* the value an emitted method returns when the request answers data:
\* deserialize<response.$ref>(data) or data itself
ReturnedValue(schemas, method, data) ==
    LET q == isConversionRequired(schemas, method.response)
    IN  IF q.ok /\ q.val /\ Has(method.response, "ref")
             /\ HasKey(schemas, method.response.ref)
          THEN Evaluate(schemas, "deserialize",
                        Lookup(schemas, method.response.ref), data)
          ELSE data

\* the return statement of an emitted method
MethodReturn(schemas, method) ==
    IF ~Has(method, "response") THEN Wrote(<< >>)
    ELSE LET q == isConversionRequired(schemas, method.response)
         IN  IF ~q.ok THEN Failed
             ELSE IF q.val
               THEN Wrote(<< Lit("return "),
                             Pre("call", "deserialize", ResponseRef(method)),
                             Lit("(data);") >>)
               ELSE Wrote(<< Lit("return data as "),
                             Tok("typeref", ResponseRef(method)),
                             Lit(";") >>)

\* the "make request" part of #writeMethod
MethodRequest(method) ==
    IF ~Has(method, "httpMethod") THEN Failed
    ELSE Wrote(<< Lit("const data = await request(url.href, "), Lit("{"),
                  Lit("client: this.#client,"), Lit("method: "),
                  Tok("quoted", method.httpMethod), Lit(",") >>
                 \o (IF Has(method, "request")
                       THEN << Lit("body,") >> ELSE << >>)
                 \o << Lit("}"), Lit(");") >>)

\* the text #writeMethod(method) writes with the schema table `schemas`
\* (the table after the synthetic schema was put in)
MethodText(schemas, method) ==
    LET params == MethodParams(method)
    IN  Then(Wrote(IF Truthy(method, "description")
                     THEN writeDocComment(method.description, TRUE, params, 1)
                     ELSE << >>),
          Then(Wrote(<< Lit("async "), Tok("method", method.camelCaseName),
                        Lit("(") >>),
            Then(writeParams(params),
              Then(Wrote(<< Lit("): Promise<") >>),
                Then(IF Has(method, "response") THEN type(method.response)
                     ELSE Wrote(<< Lit("void") >>),
                  Then(Wrote(<< Lit(">"), Lit("{") >>),
                    Then(SerializeParams(schemas, params),
                      Then(IF Truthy(method, "path")
                             THEN Wrote(<< Lit("const url = new URL(${this.#baseUrl}"),
                                           Tok("path",
                                               UrlPath(method.path,
                                                       method.pathParams)),
                                           Lit(");") >>
                                          \o QueryParams(method.queryParams)
                                          \o (IF Has(method, "request")
                                                THEN << Lit("const body = JSON.stringify(req);") >>
                                                ELSE << >>))
                             ELSE Failed,
                        Then(MethodRequest(method),
                          Then(MethodReturn(schemas, method),
                               Wrote(<< Lit("}") >>)))))))))))

\* #writeMethod(method): what it writes, and the schema table it leaves; a
\* failed assert on a path parameter throws before the table is touched
writeMethod(schemas, name, method) ==
    IF ~PathParamsRequired(method)
      THEN [out |-> Failed, schemas |-> schemas]
      ELSE [out |-> MethodText(SchemasAfterMethod(schemas, name, method),
                               method),
            schemas |-> SchemasAfterMethod(schemas, name, method)]

\* ------------------------------------------------------------------------
\* Type declarations and codec functions
\* ------------------------------------------------------------------------

\* schema.id ?? ""
IdOf(schema) == IF Has(schema, "id") THEN schema.id ELSE << >>

RECURSIVE InterfaceMembers(_)
\* the loop of #writeType over the sorted properties
InterfaceMembers(props) ==
    IF props = << >> THEN Wrote(<< >>)
    ELSE LET name == Head(props)[1]
             prop == Head(props)[2]
         IN  Then(Wrote((IF Truthy(prop, "description")
                           THEN writeDocComment(prop.description, FALSE,
                                                << >>, 1)
                           ELSE << >>)
                          \o (IF Flag(prop, "readOnly")
                                THEN << Lit("readonly ") >> ELSE << >>)
                          \o writeIdent(name)
                          \o (IF ~Flag(prop, "required")
                                THEN << Lit("?") >> ELSE << >>)
                          \o << Lit(": ") >>),
               Then(type(prop),
                 Then(Wrote(<< Lit(";") >>), InterfaceMembers(Tail(props)))))

\* #writeType(schema)
writeType(schema) ==
    IF ~Has(schema, "id") \/ schema.id = << >> THEN Failed
    ELSE IF TypeOf(schema) # "object" THEN Failed
    ELSE Then(Wrote((IF Truthy(schema, "description")
                       THEN writeDocComment(schema.description, FALSE,
                                            << >>, 0)
                       ELSE << >>)
                      \o << Lit("export interface "),
                            Tok("interface", schema.id), Lit("{") >>),
           Then(IF Has(schema, "properties")
                  THEN InterfaceMembers(SortEntries(schema.properties))
                  ELSE Wrote(<< >>),
             Then(IF Has(schema, "additionalProperties")
                    THEN Then(Wrote(<< Lit("[key: string]: ") >>),
                           Then(type(schema.additionalProperties),
                                Wrote(<< Lit(";") >>)))
                    ELSE Wrote(<< >>),
                  Wrote(<< Lit("}") >>))))

\* the function `function ${dir}${schema.id}(data: any): ${schema.id}`
CodecFunction(schemas, dir, schema) ==
    LET q == isConversionRequired(schemas, schema)
    IN  IF ~q.ok THEN Failed
        ELSE IF ~q.val THEN Wrote(<< >>)
        ELSE Then(Wrote(<< Lit("function "),
                           Pre("function", dir, IdOf(schema)),
                           Lit("(data: any): "), Tok("typeref", IdOf(schema)),
                           Lit("{"), Lit("return ") >>),
               Then(writeCodec(schemas, dir, schema, << Lit("data") >>),
                    Wrote(<< Lit(";"), Lit("}") >>)))

\* A faulty #writeDeserializerFunction that leaves out its guard: it writes
\* the function whether or not the schema requires conversion.
UnguardedDeserializerFunction(schemas, schema) ==
    Then(Wrote(<< Lit("function "),
                  Pre("function", "deserialize", IdOf(schema)),
                  Lit("(data: any): "), Tok("typeref", IdOf(schema)),
                  Lit("{"), Lit("return ") >>),
      Then(writeCodec(schemas, "deserialize", schema, << Lit("data") >>),
           Wrote(<< Lit(";"), Lit("}") >>)))

\* #writeSerializerFunction(schema)
writeSerializerFunction(schemas, schema) ==
    CodecFunction(schemas, "serialize", schema)

\* #writeDeserializerFunction(schema)
writeDeserializerFunction(schemas, schema) ==
    CodecFunction(schemas, "deserialize", schema)

\* A faulty start of #writeTypes that leaves out the sort: the schemas come
\* in the order of the table.
SchemasInTableOrder(schemas) == Values(schemas)

\* the array #writeTypes loops over: Object.values(schemas) sorted by id
SortedSchemas(schemas) ==
    Values(SortEntries([i \in DOMAIN schemas |->
                          << IdOf(schemas[i][2]), schemas[i][2] >>]))

\* one pass of the loop of #writeTypes
WriteTypesPass(schemas, schema) ==
    Then(writeType(schema),
      Then(writeSerializerFunction(schemas, schema),
           writeDeserializerFunction(schemas, schema)))

\* ------------------------------------------------------------------------
\* Module assembler
\* ------------------------------------------------------------------------

ClientForDeno ==
    << " ", "C", "l", "i", "e", "n", "t", " ", "f", "o", "r", " ",
       "D", "e", "n", "o" >>

Undefined == << "u", "n", "d", "e", "f", "i", "n", "e", "d" >>

\* `${o.f}` in a template: the text "undefined" for a missing field
Interpolated(o, f) == IF Has(o, f) THEN o[f] ELSE Undefined

\* #writeHeader(): the banner comment, then the imports
writeHeader(schema, url) ==
    << Lit("// Copyright 2022 Luca Casonato. All rights reserved. MIT license."),
       Lit("/**"),
       Tok("docline", Interpolated(schema, "title") \o ClientForDeno),
       Lit("="),
       Tok("docline",
           escapeDocs(IF Has(schema, "description") THEN schema.description
                      ELSE << >>)),
       Lit("Docs: "), Tok("docline", Interpolated(schema, "documentationLink")),
       Lit("Source: "), Tok("docline", url),
       Lit(" */"),
       Lit("import { auth, CredentialsClient, GoogleAuth, request } from"),
       Tok("quoted", << "/", "_", "/", "b", "a", "s", "e", "@", "v", "1",
                        "/", "m", "o", "d", ".", "t", "s" >>),
       Lit("export { auth, GoogleAuth };"),
       Lit("export type { CredentialsClient };") >>

\* new URL(servicePath ?? "", rootUrl).href for a root URL that ends in "/"
\* and a relative service path, as Discovery documents have them
BaseUrlHref(schema) ==
    schema.rootUrl
      \o (IF Has(schema, "servicePath") THEN schema.servicePath ELSE << >>)

\* #writePrimary() up to the loop over the methods
PrimaryOpening(schema, name) ==
    IF ~Truthy(schema, "rootUrl") THEN Failed
    ELSE Wrote((IF Truthy(schema, "description")
                  THEN writeDocComment(schema.description, FALSE, << >>, 0)
                  ELSE << >>)
                 \o << Lit("export class "), Tok("class", name), Lit("{"),
                       Lit("#client: CredentialsClient | undefined;"),
                       Lit("#baseUrl: string;"),
                       Lit("constructor(client?: CredentialsClient, baseUrl: string = "),
                       Tok("quoted", BaseUrlHref(schema)), Lit(")"),
                       Lit("{"), Lit("this.#client = client;"),
                       Lit("this.#baseUrl = baseUrl;"), Lit("}") >>)

\* A prelude that does not tell the two flags apart: it defines the decoder
\* and the encoder as soon as one of them is needed.
PreludeOfBoth(needsDecoder, needsEncoder) ==
    IF needsDecoder \/ needsEncoder
      THEN << Lit("function "), Pre("function", "decodeBase64", << >>),
              Lit("(b64: string): Uint8Array { ... }"),
              Lit("const base64abc = [ ... ];"), Lit("function "),
              Pre("function", "encodeBase64", << >>),
              Lit("(uint8: Uint8Array): string { ... }") >>
      ELSE << >>

\* the base64 prelude generate() appends after the types
Prelude(needsDecoder, needsEncoder) ==
    (IF needsDecoder
       THEN << Lit("function "), Pre("function", "decodeBase64", << >>),
               Lit("(b64: string): Uint8Array { ... }") >>
       ELSE << >>)
      \o (IF needsEncoder
            THEN << Lit("const base64abc = [ ... ];"), Lit("function "),
                    Pre("function", "encodeBase64", << >>),
                    Lit("(uint8: Uint8Array): string { ... }") >>
            ELSE << >>)

\* ------------------------------------------------------------------------
\* State
\* ------------------------------------------------------------------------

VARIABLES
    schema,              \* the document object handed to generate(); its
                         \* schemas table is the one #writeMethod assigns to
    selfUrl,             \* the selfUrl argument
    given,               \* the document as it was before the first run
    runs,                \* how many times generate() is called on the object
    pc,                  \* where the running generator instance is
    methods,             \* #methods
    name,                \* #name
    w,                   \* the text written to #w so far
    needsBase64Encoder,  \* #needsBase64Encoder
    needsBase64Decoder,  \* #needsBase64Decoder
    next,                \* the index of the loop the instance is in
    sorted,              \* the sorted array of #writeTypes
    results              \* what each finished call of generate() gave

vars ==
    << schema, selfUrl, given, runs, pc, methods, name, w,
       needsBase64Encoder, needsBase64Decoder, next, sorted, results >>

\* generate() returned `text`
Returned(text) == [threw |-> FALSE, text |-> text]

\* generate() threw: the caller gets no text
Thrown == [threw |-> TRUE, text |-> << >>]

\* ------------------------------------------------------------------------
\* Operations
\* ------------------------------------------------------------------------

\* new Generator(schema, selfUrl): the constructor
Construct ==
    /\ pc \in {"idle", "done", "threw"}
    /\ Len(results) < runs
    /\ LET flat == FlattenedMethods(schema)
       IN  IF flat.ok /\ Truthy(schema, "name") /\ Truthy(schema, "title")
             THEN /\ methods' = flat.val
                  /\ name' = primaryName(schema.name, Split(schema.title, " "))
                  /\ pc' = "constructed"
                  /\ results' = results
             ELSE /\ methods' = << >>
                  /\ name' = << >>
                  /\ pc' = "threw"
                  /\ results' = Append(results, Thrown)
    /\ w' = << >>
    /\ needsBase64Encoder' = FALSE
    /\ needsBase64Decoder' = FALSE
    /\ next' = 0
    /\ sorted' = << >>
    /\ UNCHANGED << schema, selfUrl, given, runs >>

\* generate(): #writeHeader() and #writePrimary() up to its method loop
WriteHeaderAndClass ==
    /\ pc = "constructed"
    /\ LET opening == PrimaryOpening(schema, name)
       IN  IF opening.ok
             THEN /\ w' = writeHeader(schema, selfUrl) \o opening.toks
                  /\ pc' = "methods"
                  /\ next' = 1
                  /\ results' = results
             ELSE /\ w' = w
                  /\ pc' = "threw"
                  /\ next' = 0
                  /\ results' = Append(results, Thrown)
    /\ UNCHANGED << schema, selfUrl, given, runs, methods, name,
                    needsBase64Encoder, needsBase64Decoder, sorted >>

\* one pass of the method loop of #writePrimary(): #writeMethod(method)
WriteMethod ==
    /\ pc = "methods"
    /\ next <= Len(methods)
    /\ LET r == writeMethod(schema.schemas, name, methods[next])
       IN  /\ schema' = [schema EXCEPT !.schemas = r.schemas]
           /\ IF r.out.ok
                THEN /\ w' = w \o r.out.toks
                     /\ needsBase64Encoder' = (needsBase64Encoder \/ r.out.enc)
                     /\ needsBase64Decoder' = (needsBase64Decoder \/ r.out.dec)
                     /\ pc' = "methods"
                     /\ next' = next + 1
                     /\ results' = results
                ELSE /\ w' = w
                     /\ UNCHANGED << needsBase64Encoder, needsBase64Decoder >>
                     /\ pc' = "threw"
                     /\ next' = 0
                     /\ results' = Append(results, Thrown)
    /\ UNCHANGED << selfUrl, given, runs, methods, name, sorted >>

\* the end of #writePrimary() and the start of #writeTypes(): the class is
\* closed, the schemas are read from the table and sorted
SortSchemas ==
    /\ pc = "methods"
    /\ next > Len(methods)
    /\ w' = Append(w, Lit("}"))
    /\ sorted' = SortedSchemas(schema.schemas)
    /\ pc' = "types"
    /\ next' = 1
    /\ UNCHANGED << schema, selfUrl, given, runs, methods, name,
                    needsBase64Encoder, needsBase64Decoder, results >>

\* one pass of the loop of #writeTypes(): the interface, the serializer
\* function and the deserializer function of one schema
WriteTypeAndCodecs ==
    /\ pc = "types"
    /\ next <= Len(sorted)
    /\ LET r == WriteTypesPass(schema.schemas, sorted[next])
       IN  IF r.ok
             THEN /\ w' = w \o r.toks
                  /\ needsBase64Encoder' = (needsBase64Encoder \/ r.enc)
                  /\ needsBase64Decoder' = (needsBase64Decoder \/ r.dec)
                  /\ pc' = "types"
                  /\ next' = next + 1
                  /\ results' = results
             ELSE /\ w' = w
                  /\ UNCHANGED << needsBase64Encoder, needsBase64Decoder >>
                  /\ pc' = "threw"
                  /\ next' = 0
                  /\ results' = Append(results, Thrown)
    /\ UNCHANGED << schema, selfUrl, given, runs, methods, name, sorted >>

\* the end of generate(): the base64 prelude, and the text is returned
Return ==
    /\ pc = "types"
    /\ next > Len(sorted)
    /\ w' = w \o Prelude(needsBase64Decoder, needsBase64Encoder)
    /\ results' = Append(results, Returned(w'))
    /\ pc' = "done"
    /\ next' = 0
    /\ UNCHANGED << schema, selfUrl, given, runs, methods, name,
                    needsBase64Encoder, needsBase64Decoder, sorted >>

Next ==
    \/ Construct
    \/ WriteHeaderAndClass
    \/ WriteMethod
    \/ SortSchemas
    \/ WriteTypeAndCodecs
    \/ Return

\* ------------------------------------------------------------------------
\* Documents
\* ------------------------------------------------------------------------

ApiName == << "d", "b" >>

ApiTitle == << "D", "B", " ", "A", "P", "I" >>

RootUrl == << "h", ":", "/", "/", "x", "/" >>

SelfUrl == << "h", ":", "/", "/", "s", "/", "d", "b", ".", "t", "s" >>

\* a document with the given resources and schemas
Document(resources, schemas) ==
    [id |-> << "d", "b", ":", "v", "1" >>,
     name |-> ApiName,
     title |-> ApiTitle,
     rootUrl |-> RootUrl,
     resources |-> resources,
     schemas |-> schemas]

\* schema names: KA and KB are keys of generated tables, KZ never is one
KA == << "A" >>

KB == << "B" >>

KZ == << "Z" >>

PlainString == [type |-> "string"]

Int64 == [type |-> "string", format |-> "int64"]

RefTo(k) == [ref |-> k]

ReadOnly(t) == Spread(t, [readOnly |-> TRUE])

Required(t) == Spread(t, [required |-> TRUE])

\* the nodes the properties of generated schemas are drawn from
PropNodes ==
    { Int64, ReadOnly(Int64), RefTo(KA), RefTo(KB), ReadOnly(RefTo(KZ)) }

\* the nodes additionalProperties of generated schemas are drawn from
AdditionalNodes == { PlainString, Int64, RefTo(KB) }

PropNames == { << "p" >>, << "q" >> }

\* the property maps with n properties, in every insertion order
PropMaps(n) ==
    { m \in [1..n -> PropNames \X PropNodes] :
        \A i, j \in 1..n : i # j => m[i][1] # m[j][1] }

\* the object schemas named key with n members
Schemas(key, n) ==
    { Spread([id |-> key, type |-> "object"],
             IF Len(m) > 0 THEN [properties |-> m] ELSE << >>) :
        m \in PropMaps(n) }
      \cup
    IF n = 0 THEN {}
    ELSE { Spread(Spread([id |-> key, type |-> "object"],
                         IF Len(m) > 0 THEN [properties |-> m] ELSE << >>),
                  [additionalProperties |-> ap]) :
             m \in PropMaps(n - 1), ap \in AdditionalNodes }

\* the schema tables {A} and {A, B} with at most MaxMembers members
SchemaTables ==
    { << << KA, a >> >> :
        a \in UNION { Schemas(KA, n) : n \in 0..MaxMembers } }
      \cup
    { << << KA, a >>, << KB, b >> >> :
        a \in UNION { Schemas(KA, n) : n \in 0..MaxMembers },
        b \in UNION { Schemas(KB, n) : n \in 0..MaxMembers } }

\* the members of a schema table
Members(schemas) ==
    LET count(t) ==
          (IF Has(t, "properties") THEN Len(t.properties) ELSE 0)
            + (IF Has(t, "additionalProperties") THEN 1 ELSE 0)
    IN  IF Len(schemas) = 1 THEN count(schemas[1][2])
        ELSE count(schemas[1][2]) + count(schemas[2][2])

\* a.g takes and gives an A; b.g has a 64-bit query parameter n
GraphResources ==
    << << << "a" >>,
          [methods |->
             << << << "g" >>,
                   [httpMethod |-> << "P", "O", "S", "T" >>,
                    path |-> << "a" >>,
                    request |-> RefTo(KA),
                    response |-> RefTo(KA)] >> >>] >>,
       << << "b" >>,
          [methods |->
             << << << "g" >>,
                   [httpMethod |-> << "G", "E", "T" >>,
                    path |-> << "b" >>,
                    parameters |->
                      << << << "n" >>,
                            Spread(Int64, [location |-> "query"]) >> >>] >>
             >>] >> >>

\* the state before the first call of generate(schema, selfUrl)
Fresh(doc, n) ==
    /\ schema = doc
    /\ given = doc
    /\ selfUrl = SelfUrl
    /\ runs = n
    /\ pc = "idle"
    /\ methods = << >>
    /\ name = << >>
    /\ w = << >>
    /\ needsBase64Encoder = FALSE
    /\ needsBase64Decoder = FALSE
    /\ next = 0
    /\ sorted = << >>
    /\ results = << >>

\* documents that differ in their schema graph; generate() is called once
Init ==
    \E t \in SchemaTables :
      /\ Members(t) <= MaxMembers
      /\ Fresh(Document(GraphResources, t), 1)

Spec == Init /\ [][Next]_vars

\* ------------------------------------------------------------------------
\* Documents whose schema table may hold the name of an options schema
\* ------------------------------------------------------------------------

\* the name #writeMethod gives the options schema of the method b.g
KO == << "B", "G" >> \o OptionsSuffix

OptsNodes == { PlainString, Int64, RefTo(KA), RefTo(KO) }

\* the object schemas named key with at most one property
OptsSchemas(key) ==
    { [id |-> key, type |-> "object"] }
      \cup
    { [id |-> key, type |-> "object",
       properties |-> << << << "p" >>, n >> >>] : n \in OptsNodes }

\* the schema tables over the keys A and BGOptions, in every insertion order
OptsTables ==
    { << >> }
      \cup
    UNION { { << << k, a >> >> : a \in OptsSchemas(k) } : k \in { KA, KO } }
      \cup
    UNION { { << << k[1], a >>, << k[2], b >> >> :
                a \in OptsSchemas(k[1]), b \in OptsSchemas(k[2]) } :
            k \in { << KA, KO >>, << KO, KA >> } }

\* what a.g may declare as its response
OptsResponses ==
    { << >> } \cup { [response |-> RefTo(k)] : k \in { KA, KO } }

\* a.g gives `response`; b.g has the query parameter n
OptsResources(response, param) ==
    << << << "a" >>,
          [methods |->
             << << << "g" >>,
                   Spread([httpMethod |-> << "G", "E", "T" >>,
                           path |-> << "a" >>],
                          response) >> >>] >>,
       << << "b" >>,
          [methods |->
             << << << "g" >>,
                   [httpMethod |-> << "G", "E", "T" >>,
                    path |-> << "b" >>,
                    parameters |->
                      << << << "n" >>,
                            Spread(param, [location |-> "query"]) >> >>] >>
             >>] >> >>

\* generate() is called MaxRuns times on the same document object
InitOpts ==
    \E t \in OptsTables, response \in OptsResponses,
       param \in { PlainString, Int64 } :
      Fresh(Document(OptsResources(response, param), t), MaxRuns)

SpecOpts == InitOpts /\ [][Next]_vars

\* ------------------------------------------------------------------------
\* Documents that differ in their resource tree
\* ------------------------------------------------------------------------

ResourceKeys == { << "a" >>, << "b" >> }

MethodKeys == { << "c" >>, << "b", "C" >>, << "g", "o" >> }

PlainMethod == [httpMethod |-> << "G", "E", "T" >>, path |-> << "x" >>]

\* the method maps with n methods of distinct names, in every insertion order
MethodMaps(n) ==
    { m \in [1..n -> MethodKeys \X { PlainMethod }] :
        \A i, j \in 1..n : i # j => m[i][1] # m[j][1] }

\* the resources with methods only
LeafResources ==
    { IF Len(m) > 0 THEN [methods |-> m] ELSE << >> :
        m \in UNION { MethodMaps(n) : n \in 0..MaxMethods } }

\* the resources with at most one child resource
Resources ==
    LeafResources
      \cup
    { Spread(r, [resources |-> << << k, c >> >>]) :
        r \in LeafResources, k \in ResourceKeys, c \in LeafResources }

\* the number of methods in a map of resources
RECURSIVE MethodCount(_)
MethodCount(resources) ==
    IF resources = << >> THEN 0
    ELSE LET r == Head(resources)[2]
         IN  (IF Has(r, "methods") THEN Len(r.methods) ELSE 0)
               + (IF Has(r, "resources") THEN MethodCount(r.resources) ELSE 0)
               + MethodCount(Tail(resources))

\* the resource maps with one or two top-level resources
ResourceTrees ==
    { << << k, r >> >> : k \in ResourceKeys, r \in Resources }
      \cup
    { << << k[1], r >>, << k[2], l >> >> :
        k \in { << << "a" >>, << "b" >> >>, << << "b" >>, << "a" >> >> },
        r \in Resources, l \in LeafResources }

FlatSchemas ==
    << << KA, [id |-> KA, type |-> "object",
               properties |-> << << << "p" >>, Int64 >> >>] >> >>

InitFlat ==
    \E t \in ResourceTrees :
      /\ MethodCount(t) \in 1..MaxMethods
      /\ Fresh(Document(t, FlatSchemas), 1)

SpecFlat == InitFlat /\ [][Next]_vars

\* ------------------------------------------------------------------------
\* Documents that differ in their name and title
\* ------------------------------------------------------------------------

NameChars == { "a", "b" }

TitleChars == { "A", "b", " " }

\* the strings over chars of at most n characters
Strings(chars, n) == UNION { [1..k -> chars] : k \in 0..n }

InitName ==
    \E n \in Strings(NameChars, MaxNameLen),
       t \in Strings(TitleChars, MaxTitleLen) :
      Fresh([Document(GraphResources, FlatSchemas)
               EXCEPT !.name = n, !.title = t], 1)

SpecName == InitName /\ [][Next]_vars

\* ------------------------------------------------------------------------
\* Documents that differ in the parameters of a method
\* ------------------------------------------------------------------------

\* the most parameters a generated method has
MaxParams == 3

ParamNames == { << "b" >>, << "A" >>, << "c", ".", "d" >> }

\* a description with the text that closes a comment in it
Closing == << "s", "e", "e", " ", "*", "/", " ", "x" >>

StringParam(location) == [type |-> "string", location |-> location]

Repeated(t) == Spread(t, [repeated |-> TRUE])

Described(t) == Spread(t, [description |-> Closing])

\* the parameters generated methods are drawn from; "header" is a location
\* the flattener knows nothing of
ParamNodes ==
    { Required(StringParam("path")),
      Described(Required(StringParam("path"))),
      StringParam("path"),
      StringParam("query"),
      Repeated(StringParam("query")),
      Described(StringParam("query")),
      StringParam("header") }

\* the parameter maps with n parameters, in every insertion order
ParamMaps(n) ==
    { m \in [1..n -> ParamNames \X ParamNodes] :
        \A i, j \in 1..n : i # j => m[i][1] # m[j][1] }

\* a.g with the given parameters
ParamResources(params) ==
    << << << "a" >>,
          [methods |->
             << << << "g" >>,
                   Spread([httpMethod |-> << "G", "E", "T" >>,
                           path |-> << "x", "/", "{", "b", "}" >>,
                           description |-> Closing],
                          IF Len(params) > 0 THEN [parameters |-> params]
                          ELSE << >>) >> >>] >> >>

InitParams ==
    \E params \in UNION { ParamMaps(n) : n \in 0..MaxParams } :
      Fresh(Spread(Document(ParamResources(params), FlatSchemas),
                   [description |-> Closing]), 1)

SpecParams == InitParams /\ [][Next]_vars

\* ------------------------------------------------------------------------
\* Documents with byte strings
\* ------------------------------------------------------------------------

Bytes == [type |-> "string", format |-> "byte"]

\* the nodes the properties of these schemas are drawn from
ByteNodes == { PlainString, Bytes, ReadOnly(Bytes), Int64, RefTo(KB) }

\* the property maps with n properties, in every insertion order
ByteMaps(n) ==
    { m \in [1..n -> PropNames \X ByteNodes] :
        \A i, j \in 1..n : i # j => m[i][1] # m[j][1] }

\* the schemas A with at most MaxMembers properties, the schemas B with at
\* most one
ByteSchemas(key) ==
    IF key = KA
      THEN { Spread([id |-> key, type |-> "object"],
                    IF Len(m) > 0 THEN [properties |-> m] ELSE << >>) :
               m \in UNION { ByteMaps(n) : n \in 0..MaxMembers } }
      ELSE { [id |-> key, type |-> "object"] }
             \cup
           { [id |-> key, type |-> "object",
              properties |-> << << << "p" >>, n >> >>] :
               n \in { PlainString, Bytes } }

\* the schema tables {A} and {A, B}, in every insertion order
ByteTables ==
    { << << KA, a >> >> : a \in ByteSchemas(KA) }
      \cup
    UNION { { << << k[1], a >>, << k[2], b >> >> :
                a \in ByteSchemas(k[1]), b \in ByteSchemas(k[2]) } :
            k \in { << KA, KB >>, << KB, KA >> } }

\* a.g takes and gives an A; b.g has the query parameter n
ByteResources(param) ==
    << << << "a" >>,
          [methods |->
             << << << "g" >>,
                   [httpMethod |-> << "P", "O", "S", "T" >>,
                    path |-> << "a" >>,
                    request |-> RefTo(KA),
                    response |-> RefTo(KA)] >> >>] >>,
       << << "b" >>,
          [methods |->
             << << << "g" >>,
                   [httpMethod |-> << "G", "E", "T" >>,
                    path |-> << "b" >>,
                    parameters |->
                      << << << "n" >>,
                            Spread(param, [location |-> "query"]) >> >>] >>
             >>] >> >>

InitBytes ==
    \E t \in ByteTables, param \in { PlainString, Bytes } :
      Fresh(Document(ByteResources(param), t), 1)

SpecBytes == InitBytes /\ [][Next]_vars

\* ------------------------------------------------------------------------
\* Documents that lack what the generator asserts
\* ------------------------------------------------------------------------

\* the object o without the key f
Without(o, f) == [k \in DOMAIN o \ {f} |-> o[k]]

RECURSIVE WithoutAll(_, _)
\* the object o without the keys of the set
WithoutAll(o, fields) ==
    IF fields = {} THEN o
    ELSE LET f == CHOOSE f \in fields : TRUE
         IN  WithoutAll(Without(o, f), fields \ {f})

ArrayOf(items) == [type |-> "array", items |-> items]

ArrayWithoutItems == [type |-> "array"]

\* the nodes the member of the schema A is drawn from
MemberNodes ==
    { Int64, ArrayOf(Int64), ArrayWithoutItems, ArrayOf(ArrayWithoutItems) }

\* the schemas A whose one member is the node: a property, a readOnly
\* property, or additionalProperties beside a plain property
MemberSchemas(node) ==
    { [id |-> KA, type |-> "object",
       properties |-> << << << "p" >>, node >> >>],
      [id |-> KA, type |-> "object",
       properties |-> << << << "p" >>, ReadOnly(node) >> >>],
      [id |-> KA, type |-> "object",
       properties |-> << << << "q" >>, PlainString >> >>,
       additionalProperties |-> node] }

\* what the method a.g may declare as its parameters
PathParamMaps ==
    { << >>,
      [parameters |-> << << << "b" >>, Required(StringParam("path")) >> >>],
      [parameters |-> << << << "b" >>, StringParam("path") >> >>] }

\* a.g takes an A, with or without the path parameter b
PathResources(params) ==
    << << << "a" >>,
          [methods |->
             << << << "g" >>,
                   Spread([httpMethod |-> << "P", "O", "S", "T" >>,
                           path |-> << "a", "/", "{", "b", "}" >>,
                           description |-> Closing,
                           request |-> RefTo(KA)],
                          params) >> >>] >> >>

InitFail ==
    \E lacking \in SUBSET { "name", "title", "rootUrl" },
       node \in MemberNodes, params \in PathParamMaps :
      \E a \in MemberSchemas(node) :
        Fresh(WithoutAll(Document(PathResources(params), << << KA, a >> >>),
                         lacking), 1)

SpecFail == InitFail /\ [][Next]_vars

\* ------------------------------------------------------------------------
\* Documents whose only formatted strings are durations and field masks
\* ------------------------------------------------------------------------

Duration == [type |-> "string", format |-> "google-duration"]

FieldMask == [type |-> "string", format |-> "google-fieldmask"]

\* the nodes the properties of these schemas are drawn from
StubNodes ==
    { PlainString, Duration, FieldMask, ReadOnly(Duration),
      Required(Duration), RefTo(KB) }

\* the property maps with n properties, in every insertion order
StubMaps(n) ==
    { m \in [1..n -> PropNames \X StubNodes] :
        \A i, j \in 1..n : i # j => m[i][1] # m[j][1] }

\* the schemas A with at most MaxMembers members, the schemas B with at
\* most one
StubSchemas(key) ==
    IF key = KA
      THEN { Spread([id |-> key, type |-> "object"],
                    IF Len(m) > 0 THEN [properties |-> m] ELSE << >>) :
               m \in UNION { StubMaps(n) : n \in 0..MaxMembers } }
             \cup
           { Spread(Spread([id |-> key, type |-> "object"],
                           IF Len(m) > 0 THEN [properties |-> m]
                           ELSE << >>),
                    [additionalProperties |-> ap]) :
               m \in UNION { StubMaps(n) : n \in 0..(MaxMembers - 1) },
               ap \in { PlainString, Duration } }
      ELSE { [id |-> key, type |-> "object"],
             [id |-> key, type |-> "object",
              properties |-> << << << "p" >>, FieldMask >> >>],
             [id |-> key, type |-> "object",
              additionalProperties |-> Duration] }

\* the schema tables {A} and {A, B}
StubTables ==
    { << << KA, a >> >> : a \in StubSchemas(KA) }
      \cup
    { << << KA, a >>, << KB, b >> >> :
        a \in StubSchemas(KA), b \in StubSchemas(KB) }

InitStubs ==
    \E t \in StubTables : Fresh(Document(ByteResources(PlainString), t), 1)

SpecStubs == InitStubs /\ [][Next]_vars

\* ------------------------------------------------------------------------
\* Documents that differ in the path template of a method
\* ------------------------------------------------------------------------

\* the token {name} of a path template
Braced(n) == << "{" >> \o n \o << "}" >>

\* the token {+name} of a path template
BracedPlus(n) == << "{", "+" >> \o n \o << "}" >>

\* the segments of generated templates: a fixed segment and the two tokens
\* of the names b and A
PathSegments ==
    { << "x" >> }
      \cup { Braced(n) : n \in { << "b" >>, << "A" >> } }
      \cup { BracedPlus(n) : n \in { << "b" >>, << "A" >> } }

\* the templates of two segments
PathTemplates == { s \o << "/" >> \o t : s \in PathSegments, t \in PathSegments }

\* the required path parameters a method may declare, in every order
TemplateParams ==
    { << >> }
      \cup { << << n, Required(StringParam("path")) >> >> :
               n \in { << "b" >>, << "A" >> } }
      \cup { << << n[1], Required(StringParam("path")) >>,
                << n[2], Required(StringParam("path")) >> >> :
               n \in { << << "b" >>, << "A" >> >>, << << "A" >>, << "b" >> >> } }

\* a.g with the given path template and path parameters
TemplateResources(path, params) ==
    << << << "a" >>,
          [methods |->
             << << << "g" >>,
                   Spread([httpMethod |-> << "G", "E", "T" >>,
                           path |-> path],
                          IF Len(params) > 0 THEN [parameters |-> params]
                          ELSE << >>) >> >>] >> >>

InitPaths ==
    \E path \in PathTemplates, params \in TemplateParams :
      Fresh(Document(TemplateResources(path, params), FlatSchemas), 1)

SpecPaths == InitPaths /\ [][Next]_vars

\* ------------------------------------------------------------------------
\* Documents whose schema A has required and readOnly properties
\* ------------------------------------------------------------------------

\* the nodes the properties of A are drawn from
MemberKinds ==
    { PlainString, Int64, Required(Int64), ReadOnly(Int64),
      Required(ReadOnly(Int64)), RefTo(KB) }

\* the tables {A, B}: A has at most MaxMembers properties, in every
\* insertion order, B has a 64-bit property
RecordTables ==
    { << << KA, Spread([id |-> KA, type |-> "object"],
                       IF Len(m) > 0 THEN [properties |-> m] ELSE << >>) >>,
         << KB, [id |-> KB, type |-> "object",
                 properties |-> << << << "p" >>, Int64 >> >>] >> >> :
        m \in UNION { { f \in [1..n -> PropNames \X MemberKinds] :
                          \A i, j \in 1..n : i # j => f[i][1] # f[j][1] } :
                      n \in 0..MaxMembers } }

InitRecords ==
    \E t \in RecordTables : Fresh(Document(GraphResources, t), 1)

SpecRecords == InitRecords /\ [][Next]_vars

\* ------------------------------------------------------------------------
\* Documents with long descriptions
\* ------------------------------------------------------------------------

\* the most words a generated description has
MaxWords == 3

\* a word of n characters
WordOf(n) == [i \in 1..n |-> "a"]

\* the lengths of the words of generated descriptions: around half of, at
\* and beyond the limits of a line
WordLengths == { 1, 37, 38, 76, 78 }

\* the white space between two words of a description
Gaps == { << " " >>, << " ", "\n" >> }

RECURSIVE JoinWords(_, _)
\* the words with the gap between them
JoinWords(words, gap) ==
    IF Len(words) = 0 THEN << >>
    ELSE IF Len(words) = 1 THEN words[1]
    ELSE words[1] \o gap \o JoinWords(Tail(words), gap)

\* the descriptions of n words
Descriptions(n) ==
    { JoinWords([i \in 1..n |-> WordOf(lens[i])], gap) :
        lens \in [1..n -> WordLengths], gap \in Gaps }

\* the API, the method a.g, the schema A and its property p carry the same
\* description
DescribedDocument(d) ==
    Spread(Document(
       << << << "a" >>,
             [methods |->
                << << << "g" >>,
                      [httpMethod |-> << "G", "E", "T" >>,
                       path |-> << "x" >>,
                       description |-> d] >> >>] >> >>,
       << << KA, [id |-> KA, type |-> "object", description |-> d,
                  properties |->
                    << << << "p" >>,
                          Spread(Int64, [description |-> d]) >> >>] >> >>),
           [description |-> d])

InitDocs ==
    \E d \in UNION { Descriptions(n) : n \in 1..MaxWords } :
      Fresh(DescribedDocument(d), 1)

SpecDocs == InitDocs /\ [][Next]_vars

\* ------------------------------------------------------------------------
\* Documents with repeated query parameters
\* ------------------------------------------------------------------------

QueryNames == { << "n" >>, << "m" >> }

\* a query parameter of the given type
QueryParam(t) == [type |-> t, location |-> "query"]

\* a string parameter with an enum
EnumParam ==
    Spread(QueryParam("string"), [enum |-> << << "X" >>, << "Y" >> >>])

\* the query parameters generated methods are drawn from: every base type,
\* repeated and not
QueryNodes ==
    LET single == { QueryParam("string"), QueryParam("integer"),
                    QueryParam("number"), QueryParam("boolean"), EnumParam }
    IN  single \cup { Repeated(t) : t \in single }

\* the parameter maps with n query parameters, in every insertion order
QueryMaps(n) ==
    { m \in [1..n -> QueryNames \X QueryNodes] :
        \A i, j \in 1..n : i # j => m[i][1] # m[j][1] }

\* a.g with the given parameters
QueryResources(params) ==
    << << << "a" >>,
          [methods |->
             << << << "g" >>,
                   Spread([httpMethod |-> << "G", "E", "T" >>,
                           path |-> << "x" >>],
                          IF Len(params) > 0 THEN [parameters |-> params]
                          ELSE << >>) >> >>] >> >>

InitRepeated ==
    \E params \in UNION { QueryMaps(n) : n \in 0..MaxParams } :
      Fresh(Document(QueryResources(params), FlatSchemas), 1)

SpecRepeated == InitRepeated /\ [][Next]_vars

\* ------------------------------------------------------------------------
\* Properties of the generated module
\* ------------------------------------------------------------------------

\* text declares the function ${dir}${id}
Declares(text, dir, id) ==
    \E i \in DOMAIN text : text[i] = Pre("function", dir, id)

\* text declares the interface id
DeclaresInterface(text, id) ==
    \E i \in DOMAIN text : text[i] = Tok("interface", id)

\* C1: when a run has written its module, every schema of the table the type
\* pass read has its serializer function in the module exactly when it has
\* its deserializer function there, and exactly when #isConversionRequired
\* answers true for it on that table.
C1_CodecParity ==
    pc = "done" =>
      \A i \in DOMAIN schema.schemas :
        LET S == schema.schemas[i][2]
            required == isConversionRequired(schema.schemas, S)
        IN  /\ required.ok
            /\ Declares(w, "serialize", IdOf(S)) <=> required.val
            /\ Declares(w, "deserialize", IdOf(S)) <=> required.val

\* a finished module with both codecs of A and of the options schema of b.g,
\* and neither codec of B
C1_BothAndNeither ==
    /\ pc = "done"
    /\ Declares(w, "serialize", KA) /\ Declares(w, "deserialize", KA)
    /\ Declares(w, "serialize", KO) /\ Declares(w, "deserialize", KO)
    /\ DeclaresInterface(w, KB)
    /\ ~Declares(w, "serialize", KB) /\ ~Declares(w, "deserialize", KB)

\* C2: when a run has written its module, every interface the module names
\* as a type and every serializer or deserializer function it calls is
\* declared in the module.
C2_ReferenceClosure ==
    pc = "done" =>
      \A i \in DOMAIN w :
        /\ w[i].t = "typeref" => DeclaresInterface(w, w[i].n)
        /\ w[i].t = "call" => Declares(w, w[i].s, w[i].n)

\* C3: the flattened method list of a resource tree whose maps have distinct
\* keys holds no two method records with the same camelCaseName.
C3_UniqueMethodNames ==
    \A i, j \in DOMAIN methods :
      i # j => methods[i].camelCaseName # methods[j].camelCaseName

\* how often tok occurs in text
Count(text, tok) == Cardinality({ i \in DOMAIN text : text[i] = tok })

\* the runs of generate() begun so far
Begun == Len(results) + (IF pc \in {"constructed", "methods", "types"}
                           THEN 1 ELSE 0)

\* how far the running instance is: its phase, then its place in the loop
Phase ==
    CASE pc = "idle" -> 0
      [] pc = "constructed" -> 1
      [] pc = "methods" -> 2
      [] pc = "types" -> 3
      [] OTHER -> 4

\* every step takes the generator further
Progress ==
    \/ Begun' > Begun
    \/ Begun' = Begun /\ Phase' > Phase
    \/ Begun' = Begun /\ Phase' = Phase /\ next' > next

\* the instance is at a place from which a step leads on, unless the last
\* run has ended
InPlace ==
    CASE pc = "idle" -> Len(results) < runs
      [] pc = "constructed" -> TRUE
      [] pc = "methods" -> next \in 1..(Len(methods) + 1)
      [] pc = "types" -> next \in 1..(Len(sorted) + 1)
      [] OTHER -> Len(results) <= runs

\* C4: on every schema table, cyclic ones included, a query of
\* #isConversionRequired that returns has followed no more names than the
\* table has schemas (one more when it threw on a name the table lacks), so
\* it ends; the text holds the interface, the serializer and the
\* deserializer of each schema at most once; and generation completes: the
\* instance is always at a place from which a step leads on, and every step
\* takes it further.
C4_CycleSafety ==
    /\ [](/\ \A i \in DOMAIN schema.schemas :
               LET S == schema.schemas[i][2]
                   q == isConversionRequired(schema.schemas, S)
               IN  /\ q.calls <= Len(schema.schemas)
                                   + (IF q.ok THEN 0 ELSE 1)
                   /\ Count(w, Tok("interface", IdOf(S))) <= 1
                   /\ Count(w, Pre("function", "serialize", IdOf(S))) <= 1
                   /\ Count(w, Pre("function", "deserialize", IdOf(S))) <= 1
          /\ InPlace)
    /\ [][Progress]_vars

\* the schema table holds a cycle through A and B
MutualCycle(schemas) ==
    /\ HasKey(schemas, KA) /\ HasKey(schemas, KB)
    /\ Has(Lookup(schemas, KA), "properties")
    /\ Has(Lookup(schemas, KB), "properties")
    /\ \E i \in DOMAIN Lookup(schemas, KA).properties :
         Lookup(schemas, KA).properties[i][2] = RefTo(KB)
    /\ \E i \in DOMAIN Lookup(schemas, KB).properties :
         Lookup(schemas, KB).properties[i][2] = RefTo(KA)

\* a finished module for a table in which A refers to B and B to A, each
\* written once
C4_CycleGenerated ==
    /\ pc = "done"
    /\ MutualCycle(schema.schemas)
    /\ Count(w, Tok("interface", KA)) = 1
    /\ Count(w, Tok("interface", KB)) = 1

\* S is an object whose only member is a property that refers to S itself
SelfReferring(S) ==
    /\ TypeOf(S) = "object"
    /\ Has(S, "properties")
    /\ ~Has(S, "additionalProperties")
    /\ Len(S.properties) = 1
    /\ S.properties[1][2] = RefTo(IdOf(S))

\* C5 as stated: for a schema whose only property refers to the schema
\* itself the analyzer terminates and both codecs of the schema are in the
\* finished module.
C5_SelfReferenceCodecs ==
    pc = "done" =>
      \A i \in DOMAIN schema.schemas :
        LET S == schema.schemas[i][2]
        IN  SelfReferring(S) =>
              /\ isConversionRequired(schema.schemas, S).ok
              /\ Declares(w, "serialize", IdOf(S))
              /\ Declares(w, "deserialize", IdOf(S))

\* C5 amended: for a schema whose only property refers to the schema itself
\* the analyzer terminates after following the name once and answers false,
\* and the finished module holds the interface of the schema and neither
\* its serializer nor its deserializer.
C5_SelfReferenceNoCodecs ==
    \A i \in DOMAIN schema.schemas :
      LET S == schema.schemas[i][2]
          q == isConversionRequired(schema.schemas, S)
      IN  SelfReferring(S) =>
            /\ q.ok /\ ~q.val /\ q.calls = 1
            /\ pc = "done" =>
                 /\ DeclaresInterface(w, IdOf(S))
                 /\ ~Declares(w, "serialize", IdOf(S))
                 /\ ~Declares(w, "deserialize", IdOf(S))

\* a finished module for a table whose schema A has the single property
\* p: {$ref: "A"}
C5_SelfReferenceGenerated ==
    /\ pc = "done"
    /\ SelfReferring(Lookup(schema.schemas, KA))
    /\ DeclaresInterface(w, KA)

\* C6: every call of generate() on the same document object and selfUrl gives
\* the same result as the first one.
C6_SameTextAcrossRuns ==
    \A i \in DOMAIN results : results[i] = results[1]

\* C7: for every object schema of the table, #isConversionRequired answers
\* true exactly when it answers true for one of the properties that are not
\* readOnly or for the additionalProperties.
C7_ObjectRule ==
    \A i \in DOMAIN schema.schemas :
      LET S == schema.schemas[i][2]
          props == IF Has(S, "properties") THEN Values(S.properties)
                   ELSE << >>
          members == { props[k] : k \in { k \in DOMAIN props :
                                            ~Flag(props[k], "readOnly") } }
                       \cup (IF Has(S, "additionalProperties")
                               THEN { S.additionalProperties } ELSE {})
          whole == isConversionRequired(schema.schemas, S)
      IN  (/\ TypeOf(S) = "object"
           /\ whole.ok
           /\ \A m \in members : isConversionRequired(schema.schemas, m).ok)
            => (whole.val <=>
                  \E m \in members : isConversionRequired(schema.schemas, m).val)

RECURSIVE PrimaryNameTrace(_, _, _)
\* the values of name and index at each test of the while loop of primaryName
PrimaryNameTrace(n, words, index) ==
    IF index < Len(n)
      THEN LET st == PrimaryNameStep(n, words, index)
           IN  << [name |-> n, index |-> index] >>
                 \o PrimaryNameTrace(st.name, words, st.index)
      ELSE << [name |-> n, index |-> index] >>

\* the step from loop state cur to loop state nxt is the one C8 describes;
\* an empty word is taken to match nowhere
ScanStep(words, cur, nxt) ==
    LET matching == { k \in DOMAIN words :
                        /\ words[k] # << >>
                        /\ StartsWith(toLowerCase(cur.name),
                                      toLowerCase(words[k]), cur.index) }
    IN  IF matching # {}
          THEN \E k \in matching :
                 /\ nxt.index = cur.index + Len(words[k])
                 /\ nxt.name = Slice(cur.name, 0, cur.index) \o words[k]
                                 \o SliceFrom(cur.name, nxt.index)
          ELSE nxt.index = cur.index + 1 /\ nxt.name = cur.name

\* C8: the class name the constructor computed is the name the scan ends
\* with, and at every position the scan reaches where the name starts,
\* ignoring case, with a word of the title, it puts that word in its place
\* and advances by the word's length, and otherwise advances by one
\* character.
C8_PrimaryNameScan ==
    pc = "constructed" =>
      LET words == Split(schema.title, " ")
          trace == PrimaryNameTrace(schema.name, words, 0)
      IN  /\ name = trace[Len(trace)].name
          /\ \A i \in 1..(Len(trace) - 1) :
               ScanStep(words, trace[i], trace[i + 1])

\* the names #writeMethod may give an options schema of the document
OptionsNames ==
    LET flat == FlattenedMethods(given)
    IN  { OptionsName(flat.val[i]) : i \in DOMAIN flat.val }

\* C9: generation changes nothing of the document but its schemas table; every
\* schema the table held before generation is still there and the same; and
\* every entry added is named as the options schema of a method.
C9_OnlyAddsOptionsSchemas ==
    /\ [schema EXCEPT !.schemas = given.schemas] = given
    /\ \A i \in DOMAIN given.schemas :
         /\ HasKey(schema.schemas, given.schemas[i][1])
         /\ Lookup(schema.schemas, given.schemas[i][1]) = given.schemas[i][2]
    /\ \A i \in DOMAIN schema.schemas :
         \/ HasKey(given.schemas, schema.schemas[i][1])
         \/ schema.schemas[i][1] \in OptionsNames

RECURSIVE MethodPaths(_, _)
\* the paths [r1, ..., rn, methodName] of the methods of a map of resources
MethodPaths(resources, names) ==
    IF resources = << >> THEN << >>
    ELSE LET here == Append(names, Head(resources)[1])
             r == Head(resources)[2]
         IN  (IF Has(r, "methods")
                THEN [i \in DOMAIN r.methods |-> Append(here, r.methods[i][1])]
                ELSE << >>)
               \o (IF Has(r, "resources")
                     THEN MethodPaths(r.resources, here) ELSE << >>)
               \o MethodPaths(Tail(resources), names)

\* p with its first character in upper case and the others as they are
CapitalizedPart(p) ==
    [i \in DOMAIN p |-> IF i = 1 THEN CharToUpper(p[i]) ELSE p[i]]

\* the parts of a path, all but the first `keep` of them capitalised
CapitalizedFrom(path, keep) ==
    [i \in DOMAIN path |->
       IF i <= keep THEN path[i] ELSE CapitalizedPart(path[i])]

\* the two names C10 gives the method at path
NamesOfPath(path) ==
    [camelCaseName |-> Concat(CapitalizedFrom(path, 1)),
     pascalCaseName |-> Concat(CapitalizedFrom(path, 0))]

\* C10: the constructor gives the methods of the resource tree, one record
\* per path [r1, ..., rn, methodName], the camelCaseName r1 followed by the
\* other parts capitalised and the pascalCaseName of all parts capitalised,
\* where capitalising a part changes its first character only.
C10_MethodNames ==
    pc = "constructed" =>
      LET paths == MethodPaths(schema.resources, << >>)
          wanted == [i \in DOMAIN paths |-> NamesOfPath(paths[i])]
          got == [i \in DOMAIN methods |->
                    [camelCaseName |-> methods[i].camelCaseName,
                     pascalCaseName |-> methods[i].pascalCaseName]]
      IN  /\ Len(got) = Len(wanted)
          /\ \A i \in DOMAIN wanted :
               Count(got, wanted[i]) = Count(wanted, wanted[i])

\* a constructed generator with the method go of the resource b of the
\* resource a, named aBGo and ABGo
C10_NestedMethodNamed ==
    /\ pc = "constructed"
    /\ \E i \in DOMAIN methods :
         /\ methods[i].camelCaseName = << "a", "B", "G", "o" >>
         /\ methods[i].pascalCaseName = << "A", "B", "G", "o" >>

\* the entries of the ordered map params whose value has the location
EntriesAt(params, location) ==
    { params[j] : j \in { k \in DOMAIN params :
                            /\ Has(params[k][2], "location")
                            /\ params[k][2].location = location } }

\* the entries of a list, as a set
Entries(list) == { list[j] : j \in DOMAIN list }

\* adjacent keys of the list are in the order of localeCompare
Ascending(list) ==
    \A j \in DOMAIN list :
      j < Len(list) => localeCompare(list[j][1], list[j + 1][1]) <= 0

\* the parameters a method record was made from
DeclaredParams(m) == IF Has(m, "parameters") THEN m.parameters ELSE << >>

\* C11: in every method record, pathParams holds exactly the parameters of
\* location "path" and queryParams exactly those of location "query", each
\* once; a parameter of any other location is in neither list; both lists
\* are in ascending order of the parameter name (the order of localeCompare).
C11_ParameterPartition ==
    \A i \in DOMAIN methods :
      LET m == methods[i]
          declared == DeclaredParams(m)
      IN  /\ Entries(m.pathParams) = EntriesAt(declared, "path")
          /\ Entries(m.queryParams) = EntriesAt(declared, "query")
          /\ Len(m.pathParams) = Cardinality(EntriesAt(declared, "path"))
          /\ Len(m.queryParams) = Cardinality(EntriesAt(declared, "query"))
          /\ Ascending(m.pathParams)
          /\ Ascending(m.queryParams)

\* a record made from a header parameter and two query parameters that the
\* document gives in descending order
C11_PartitionedAndSorted ==
    /\ pc = "constructed"
    /\ \E i \in DOMAIN methods :
         LET declared == DeclaredParams(methods[i])
         IN  /\ Len(declared) = 3
             /\ declared[1][2].location = "query"
             /\ declared[2][2].location = "header"
             /\ declared[3][2].location = "query"
             /\ localeCompare(declared[1][1], declared[3][1]) > 0
             /\ Keys(methods[i].queryParams)
                  = << declared[3][1], declared[1][1] >>

\* the places of the text that hold a token of the role
PlacesOf(text, role) == { i \in DOMAIN text : text[i].t = role }

\* the names of the tokens of one role in the text, in the order of the text
NamesOf(text, role) ==
    LET places == PlacesOf(text, role)
    IN  [k \in 1..Cardinality(places) |->
           text[CHOOSE i \in places :
                  Cardinality({ j \in places : j <= i }) = k].n]

\* how many passes of the method loop of the running instance are over
MethodsWritten ==
    IF pc = "methods" THEN next - 1
    ELSE IF pc \in {"types", "done"} THEN Len(methods)
    ELSE 0

\* C12: after construction the method records are in ascending order of
\* camelCaseName (the order of localeCompare) whatever the order of the
\* resources and methods in the document, no record is lost, and the
\* methods of the primary class are written in exactly that order.
C12_MethodOrder ==
    /\ \A i \in DOMAIN methods :
         i < Len(methods)
           => localeCompare(methods[i].camelCaseName,
                            methods[i + 1].camelCaseName) <= 0
    /\ pc \in {"constructed", "methods", "types", "done"}
         => Len(methods) = MethodCount(given.resources)
    /\ pc \in {"methods", "types", "done"}
         => NamesOf(w, "method")
              = [i \in 1..MethodsWritten |-> methods[i].camelCaseName]

\* a class written with two methods that the document has in the other order
C12_ReorderedAndWritten ==
    /\ pc = "done"
    /\ Len(methods) = 2
    /\ LET unsorted == VisitChildren(<< >>, given.resources).val
       IN  /\ unsorted[1].camelCaseName = methods[2].camelCaseName
           /\ unsorted[2].camelCaseName = methods[1].camelCaseName
           /\ methods[1].camelCaseName # methods[2].camelCaseName
    /\ Len(NamesOf(w, "method")) = 2

\* the places of the text that hold the literal
PlacesOfLit(text, s) == { i \in DOMAIN text : text[i] = Lit(s) }

\* the places where a codec function of a schema is declared
CodecPlaces(text) ==
    { i \in DOMAIN text :
        text[i].t = "function" /\ text[i].s \in {"serialize", "deserialize"} }

\* the places where a function of the base64 prelude is declared
PreludePlaces(text) ==
    { i \in DOMAIN text :
        text[i].t = "function"
          /\ text[i].s \in {"decodeBase64", "encodeBase64"} }

\* every place of P is before every place of Q
Before(P, Q) == \A i \in P, j \in Q : i < j

\* the interface whose declaration is the last one before place i
InterfaceBefore(text, i) ==
    LET before == { j \in PlacesOf(text, "interface") : j < i }
    IN  IF before = {} THEN << >>
        ELSE text[CHOOSE j \in before : \A k \in before : k <= j].n

\* the ids the type pass has to visit: the keys of the document's table and
\* the name of the options schema of every method with query parameters
IdsToVisit ==
    { given.schemas[i][2].id : i \in DOMAIN given.schemas }
      \cup { OptionsName(methods[i]) :
               i \in { j \in DOMAIN methods : methods[j].queryParams # << >> } }

\* the header comment, the imports, the class with its methods, the
\* declarations of the schemas and the prelude follow each other in the text
SectionsInOrder ==
    LET banner == PlacesOfLit(w, "/**")
        imports ==
          PlacesOfLit(w, "import { auth, CredentialsClient, GoogleAuth, request } from")
        class == PlacesOf(w, "class")
        members == PlacesOf(w, "method")
        types == PlacesOf(w, "interface") \cup CodecPlaces(w)
        prelude == PreludePlaces(w)
    IN  /\ pc \in {"methods", "types", "done"}
          => /\ Cardinality(imports) = 1
             /\ Cardinality(class) = 1
             /\ 2 \in banner
             /\ Before({2}, imports)
        /\ Before(imports, class)
        /\ Before(class, members)
        /\ Before(class \cup members, types)
        /\ Before(types, prelude)
        /\ pc # "done" => prelude = {}

\* the interfaces come in ascending order of id (the order of localeCompare),
\* each once; a codec function stands behind the interface of its schema and
\* before the next interface, the serializer before the deserializer
TypesInOrder ==
    LET ids == NamesOf(w, "interface")
    IN  /\ \A i \in DOMAIN ids :
             i < Len(ids) => localeCompare(ids[i], ids[i + 1]) < 0
        /\ pc \in {"types", "done"}
             => /\ { ids[i] : i \in DOMAIN ids } \subseteq IdsToVisit
                /\ Len(sorted) = Cardinality(IdsToVisit)
        /\ pc = "done" => { ids[i] : i \in DOMAIN ids } = IdsToVisit
        /\ \A i \in CodecPlaces(w) :
             /\ InterfaceBefore(w, i) = w[i].n
             /\ \A j \in CodecPlaces(w) :
                  (w[j].n = w[i].n /\ i < j)
                    => (w[i].s = "serialize" /\ w[j].s = "deserialize")

\* what was written stays: a step either starts a new instance with an
\* empty text or appends to the text
AppendOnly ==
    \/ pc' = "constructed" /\ w' = << >>
    \/ pc' = "threw"
    \/ Len(w') >= Len(w) /\ SubSeq(w', 1, Len(w)) = w

\* C13: the text is written in the order header, imports, primary class,
\* type declarations, base64 prelude, and nothing written is moved later;
\* the type pass visits every schema of the table, the options schema of
\* each method among them, in ascending order of id, and writes for each the
\* interface, then its serializer if it has one, then its deserializer if it
\* has one, before the interface of the next schema.
C13_EmissionOrder ==
    /\ [](SectionsInOrder /\ TypesInOrder)
    /\ [][AppendOnly]_vars

\* a finished text with the three interfaces of a table given as B, A, with
\* both codecs of A and of the options schema, and with the prelude
C13_AllSectionsWritten ==
    /\ pc = "done"
    /\ Keys(given.schemas) = << KB, KA >>
    /\ NamesOf(w, "interface") = << KA, KB, KO >>
    /\ Declares(w, "serialize", KA) /\ Declares(w, "deserialize", KA)
    /\ Declares(w, "serialize", KO) /\ Declares(w, "deserialize", KO)
    /\ Cardinality(PreludePlaces(w)) = 2

\* the places of the text where the helper is called
CallsOf(text, helper) ==
    IF helper = "encodeBase64" THEN PlacesOfLit(text, "encodeBase64(")
    ELSE PlacesOfLit(text, "decodeBase64(")

\* the places of the text where the helper is defined
DefinitionsOf(text, helper) ==
    { i \in DOMAIN text : text[i] = Pre("function", helper, << >>) }

\* C14 as it is stated: a returned text defines the base64 encoder and the
\* base64 decoder, both, if and only if some byte conversion was written,
\* neither more than once, and no call of either lacks its definition.
C14_BothHelpersIffAnyConversion ==
    \A i \in DOMAIN results :
      ~results[i].threw =>
        LET text == results[i].text
            converts == CallsOf(text, "encodeBase64") # {}
                          \/ CallsOf(text, "decodeBase64") # {}
        IN  \A helper \in {"encodeBase64", "decodeBase64"} :
              /\ (DefinitionsOf(text, helper) # {}) <=> converts
              /\ Cardinality(DefinitionsOf(text, helper)) <= 1
              /\ CallsOf(text, helper) # {}
                   => DefinitionsOf(text, helper) # {}

\* C14, amended: a returned text defines the base64 encoder if and only if
\* it calls encodeBase64 and the base64 decoder if and only if it calls
\* decodeBase64; it defines neither more than once, so no call of either
\* lacks its definition and no definition is without a call.
C14_HelperIffItsCalls ==
    \A i \in DOMAIN results :
      ~results[i].threw =>
        LET text == results[i].text
        IN  \A helper \in {"encodeBase64", "decodeBase64"} :
              /\ (DefinitionsOf(text, helper) # {})
                   <=> (CallsOf(text, helper) # {})
              /\ Cardinality(DefinitionsOf(text, helper)) <= 1

\* a returned text that decodes the readOnly byte property of A and encodes
\* nothing: it defines the decoder alone
C14_DecoderAlone ==
    /\ pc = "done"
    /\ \E k \in DOMAIN given.schemas :
         /\ Has(given.schemas[k][2], "properties")
         /\ \E i \in DOMAIN given.schemas[k][2].properties :
              given.schemas[k][2].properties[i][2] = ReadOnly(Bytes)
    /\ Declares(results[1].text, "serialize", KA)
    /\ CallsOf(results[1].text, "decodeBase64") # {}
    /\ CallsOf(results[1].text, "encodeBase64") = {}
    /\ Cardinality(DefinitionsOf(results[1].text, "decodeBase64")) = 1
    /\ DefinitionsOf(results[1].text, "encodeBase64") = {}

\* C15: a property or parameter name that contains "." is never written as
\* a bare identifier: where the text declares or reads it (interface
\* members, codec fields, the opts accesses of the query guards, the single
\* appends and the iteration over a repeated parameter) it stands as a
\* quoted string in brackets.
C15_DottedNamesQuoted ==
    \A i \in DOMAIN w : w[i].t = "bare" => ~Includes(w[i].n, ".")

\* C16: no text of the document that goes into a doc comment (the
\* description of the API, of a schema, of a property or of a method, and
\* the description of a parameter on an @param line) is written with the
\* two characters that close a comment: no line of a doc comment holds them,
\* so a doc comment ends at its own last line only.
C16_NoCommentCloserInDocs ==
    \A i \in DOMAIN w :
      w[i].t \in {"docline", "docparam"}
        => IndexOf(w[i].n, << "*", "/" >>) = -1

RECURSIVE HasArrayWithoutItems(_)
\* the node, or a node below it, is an array without items
HasArrayWithoutItems(t) ==
    \/ Has(t, "type") /\ t.type = "array" /\ ~Has(t, "items")
    \/ Has(t, "items") /\ HasArrayWithoutItems(t.items)
    \/ /\ Has(t, "properties")
       /\ \E i \in DOMAIN t.properties :
            HasArrayWithoutItems(t.properties[i][2])
    \/ Has(t, "additionalProperties")
         /\ HasArrayWithoutItems(t.additionalProperties)

\* some method at the top of the resource map has a path parameter that is
\* not required
HasOptionalPathParam(resources) ==
    \E r \in DOMAIN resources :
      /\ Has(resources[r][2], "methods")
      /\ \E m \in DOMAIN resources[r][2].methods :
           LET method == resources[r][2].methods[m][2]
           IN  /\ Has(method, "parameters")
               /\ \E p \in DOMAIN method.parameters :
                    /\ method.parameters[p][2].location = "path"
                    /\ ~Flag(method.parameters[p][2], "required")

\* the document has one of the defects the generator asserts against
Defective(doc) ==
    \/ ~Has(doc, "name")
    \/ ~Has(doc, "title")
    \/ ~Has(doc, "rootUrl")
    \/ \E i \in DOMAIN doc.schemas : HasArrayWithoutItems(doc.schemas[i][2])
    \/ HasOptionalPathParam(doc.resources)

\* C17: when the document lacks name, title or rootUrl, an array node lacks
\* items, or a path parameter is not required, generate() throws and gives
\* its caller no text; a text that is returned is a whole one, with the
\* class, every method and the interface of every schema.
C17_ThrowsWithoutText ==
    /\ Defective(given) => pc # "done"
    /\ \A i \in DOMAIN results :
         /\ Defective(given) => results[i].threw
         /\ results[i].threw => results[i].text = << >>
         /\ ~results[i].threw =>
              /\ Cardinality(PlacesOf(results[i].text, "class")) = 1
              /\ Len(NamesOf(results[i].text, "method")) = Len(methods)
              /\ { results[i].text[j].n :
                     j \in PlacesOf(results[i].text, "interface") }
                   = IdsToVisit

\* a run on a document whose one defect is an array without items: it threw
\* when the header and the class were already in the writer, and the caller
\* got no text
C17_ThrewAfterWriting ==
    /\ pc = "threw"
    /\ Has(given, "name") /\ Has(given, "title") /\ Has(given, "rootUrl")
    /\ ~HasOptionalPathParam(given.resources)
    /\ HasArrayWithoutItems(given.schemas[1][2])
    /\ w # << >>
    /\ results = << Thrown >>

\* the schema has properties and additionalProperties that require conversion
MixedObject(schemas, t) ==
    /\ Has(t, "properties") /\ t.properties # << >>
    /\ Has(t, "additionalProperties")
    /\ LET q == isConversionRequired(schemas, t.additionalProperties)
       IN  q.ok /\ q.val

\* C18: when an object node has a non-empty properties map and
\* additionalProperties that require conversion, writing its codec fails an
\* assertion and generation is aborted: no run on a document with such a
\* schema returns a text.
C18_MixedObjectAborts ==
    (\E k \in DOMAIN given.schemas :
       MixedObject(given.schemas, given.schemas[k][2]))
      => /\ pc # "done"
         /\ \A i \in DOMAIN results : results[i].threw

\* the names the node refers to, at the node itself or one level below it
RefsOf(t) ==
    (IF Has(t, "ref") THEN { t.ref } ELSE {})
      \cup (IF Has(t, "properties")
              THEN { t.properties[i][2].ref :
                       i \in { j \in DOMAIN t.properties :
                                 Has(t.properties[j][2], "ref") } }
              ELSE {})
      \cup (IF Has(t, "additionalProperties")
               /\ Has(t.additionalProperties, "ref")
              THEN { t.additionalProperties.ref } ELSE {})

\* some schema of the document refers to a name that is no key of its table
HasUnresolvedRef(doc) ==
    \E k \in DOMAIN doc.schemas :
      \E r \in RefsOf(doc.schemas[k][2]) : ~HasKey(doc.schemas, r)

\* C19: when a $ref of the document (in a property of a schema, a readOnly
\* one included, in a parameter, a request or a response) names a schema
\* that the schemas table does not have, generation aborts with an error:
\* no run on such a document returns a text.
C19_UnresolvedRefAborts ==
    HasUnresolvedRef(given)
      => /\ pc # "done"
         /\ \A i \in DOMAIN results : results[i].threw

\* the strings wire objects hold
WireStrings == { StringValue(<< "1", "s" >>), StringValue(<< >>) }

\* the objects over the keys p and q with the given values
ObjectsOver(values) ==
    { ObjectValue(f) : f \in UNION { [S -> values] : S \in SUBSET PropNames } }

\* the wire objects: an object holds strings and objects that hold strings,
\* and may omit any key
WireObjects == ObjectsOver(WireStrings \cup ObjectsOver(WireStrings))

\* the text declares serializeS and deserializeS for the schema
HasCodecs(text, S) ==
    Declares(text, "serialize", S.id) /\ Declares(text, "deserialize", S.id)

RECURSIVE Conforms(_, _, _)
\* v is a wire value of the node t: a string for a string node, an object
\* for an object node, whose members are wire values of the properties of
\* their names, or of additionalProperties for any other name when the node
\* has them; a member may be missing
Conforms(schemas, t, v) ==
    CASE TypeOf(t) = "string" -> v.k = "string"
      [] TypeOf(t) = "object" ->
           /\ v.k = "object"
           /\ \A n \in DOMAIN v.v :
                IF Has(t, "properties") /\ HasKey(t.properties, n)
                  THEN Conforms(schemas, Lookup(t.properties, n), v.v[n])
                ELSE IF Has(t, "additionalProperties")
                  THEN Conforms(schemas, t.additionalProperties, v.v[n])
                ELSE TRUE
      [] OTHER ->
           IF Has(t, "ref") /\ HasKey(schemas, t.ref)
             THEN Conforms(schemas, Lookup(schemas, t.ref), v)
             ELSE FALSE

\* serializeS(deserializeS(x))
RoundTrip(schemas, S, x) ==
    Evaluate(schemas, "serialize", S,
             Evaluate(schemas, "deserialize", S, x))

C21_NoPathTokenLeft ==
    \A i \in PlacesOf(w, "path") :
      \A m \in DOMAIN methods :
        \A p \in DOMAIN methods[m].pathParams :
          LET n == methods[m].pathParams[p][1]
          IN  /\ IndexOf(w[i].n, << "{" >> \o n \o << "}" >>) = -1
              /\ IndexOf(w[i].n, << "{", "+" >> \o n \o << "}" >>) = -1

\* the place where the function ${dir}${id} starts, 0 when there is none
FunctionPlace(text, dir, id) ==
    IF Declares(text, dir, id)
      THEN CHOOSE i \in DOMAIN text : text[i] = Pre("function", dir, id)
      ELSE 0

\* the places of the function that starts at place s: up to the next
\* function or interface, or to the end of the text
FunctionBody(text, s) ==
    { i \in DOMAIN text :
        /\ i > s
        /\ \A j \in DOMAIN text :
             (s < j /\ j <= i) => text[j].t \notin {"function", "interface"} }

\* the places of the separators that follow the key of a member
MemberPlaces(text, s) ==
    { c \in FunctionBody(text, s) : text[c] = Tok("bare", << ":", " " >>) }

\* the key that stands before the separator at place c
MemberKey(text, c) ==
    IF text[c - 1].t = "bare" THEN text[c - 1].n ELSE text[c - 2].n

\* the keys of the members of the function, in the order of the text
MemberKeys(text, s) ==
    LET places == MemberPlaces(text, s)
    IN  [k \in 1..Cardinality(places) |->
           MemberKey(text, CHOOSE c \in places :
                             Cardinality({ j \in places : j <= c }) = k)]

\* the member at place c is written as
\* `data[key] !== undefined ? ... : undefined`
Guarded(text, c) ==
    /\ c + 5 <= Len(text)
    /\ SubSeq(text, c + 1, c + 5)
         = << Lit("data"), Lit("["), Tok("quoted", MemberKey(text, c)),
              Lit("]"), Lit(" !== undefined ? ") >>

\* the properties the codec of direction dir has to override
Overridden(schemas, dir, props) ==
    { props[i][1] :
        i \in { j \in DOMAIN props :
                  /\ isConversionRequired(schemas, props[j][2]).val
                  /\ ~(dir = "serialize" /\ Flag(props[j][2], "readOnly")) } }

\* the function ${dir}A of the text is the record claim C22 describes
RecordAsClaimed(text, schemas, dir, A) ==
    LET s == FunctionPlace(text, dir, A.id)
        keys == MemberKeys(text, s)
    IN  s > 0 =>
          /\ SubSeq(text, s + 4, s + 8)
               = << Lit("return "), Lit("{"), Lit("..."), Lit("data"),
                    Lit(",") >>
          /\ \A c \in MemberPlaces(text, s) : c > s + 8
          /\ { keys[k] : k \in DOMAIN keys }
               = Overridden(schemas, dir, A.properties)
          /\ \A k \in DOMAIN keys :
               k < Len(keys) => localeCompare(keys[k], keys[k + 1]) < 0
          /\ \A c \in MemberPlaces(text, s) :
               Guarded(text, c)
                 <=> ~Flag(Lookup(A.properties, MemberKey(text, c)),
                           "required")
          /\ Cardinality({ c \in MemberPlaces(text, s) : Guarded(text, c) })
               = Cardinality({ i \in FunctionBody(text, s) :
                                 text[i] = Lit(" : undefined") })

\* C22: in an object codec with properties the emitted record spreads data
\* first and then overrides exactly the properties that require conversion,
\* in the order of their names, a required property without a guard and any
\* other one guarded by `!== undefined`; the serializer leaves out the
\* readOnly properties, the deserializer converts them.
C22_RecordCodec ==
    pc = "done" =>
      \A dir \in {"serialize", "deserialize"} :
        RecordAsClaimed(w, schema.schemas, dir, Lookup(given.schemas, KA))

\* a module for an A that gives the readOnly q before the required p: the
\* serializer overrides p alone, the deserializer p and then q, p without a
\* guard and q with one
C22_RequiredAndReadOnly ==
    /\ pc = "done"
    /\ Has(Lookup(given.schemas, KA), "properties")
    /\ Keys(Lookup(given.schemas, KA).properties) = << << "q" >>, << "p" >> >>
    /\ Lookup(Lookup(given.schemas, KA).properties, << "p" >>)
         = Required(Int64)
    /\ Lookup(Lookup(given.schemas, KA).properties, << "q" >>)
         = ReadOnly(Int64)
    /\ MemberKeys(w, FunctionPlace(w, "serialize", KA)) = << << "p" >> >>
    /\ MemberKeys(w, FunctionPlace(w, "deserialize", KA))
         = << << "p" >>, << "q" >> >>
    /\ Cardinality({ c \in MemberPlaces(w, FunctionPlace(w, "deserialize", KA)) :
                       Guarded(w, c) }) = 1

\* the places where a doc comment written by #writeDocComment starts: the
\* comments behind the imports
CommentStarts(text) ==
    { b \in PlacesOfLit(text, "/**") :
        \E i \in PlacesOfLit(text, "import { auth, CredentialsClient, GoogleAuth, request } from") :
          i < b }

\* the place where the comment that starts at b ends
CommentEnd(text, b) ==
    CHOOSE e \in PlacesOfLit(text, " */") :
      e > b /\ \A f \in PlacesOfLit(text, " */") : f > b => e <= f

\* the description lines of the comment that starts at b, in order
CommentLines(text, b) ==
    LET places == { i \in PlacesOf(text, "docline") :
                      b < i /\ i < CommentEnd(text, b) }
    IN  [k \in 1..Cardinality(places) |->
           text[CHOOSE i \in places :
                  Cardinality({ j \in places : j <= i }) = k].n]

\* the indentation of the comment that starts at b: a class and an
\* interface are declared at level 0, their members at level 1
CommentLevel(text, b) ==
    IF text[CommentEnd(text, b) + 1]
         \in { Lit("export class "), Lit("export interface ") }
      THEN 0 ELSE 1

\* the words of a string that are not empty
WordsIn(s) ==
    SelectSeq(SplitSpaces(s, << >>, FALSE), LAMBDA x : x # << >>)

RECURSIVE WordsInAll(_)
\* the words of the lines, in order
WordsInAll(lines) ==
    IF lines = << >> THEN << >>
    ELSE WordsIn(Head(lines)) \o WordsInAll(Tail(lines))

\* C23: every description line that the wrapping of a doc comment makes
\* holds at most 80 - 3 - 2 * level characters, unless it is a single word
\* longer than that; the lines are broken at the white space of the
\* description only: their words are the words of the description.
C23_WrappedLines ==
    \A b \in CommentStarts(w) :
      LET lines == CommentLines(w, b)
          limit == 80 - 3 - 2 * CommentLevel(w, b)
      IN  /\ \A k \in DOMAIN lines :
               \/ Len(lines[k]) <= limit
               \/ \A i \in DOMAIN lines[k] : ~IsSpace(lines[k][i])
          /\ WordsInAll(lines) = WordsIn(given.description)

\* a comment at level 0 with a single word of 78 characters on a line of
\* its own and a line of two words that is exactly 77 characters long
C23_LongWordAndFullLine ==
    /\ pc = "done"
    /\ \E b \in CommentStarts(w) :
         /\ CommentLevel(w, b) = 0
         /\ \E k \in DOMAIN CommentLines(w, b) :
              Len(CommentLines(w, b)[k]) = 78
         /\ \E k \in DOMAIN CommentLines(w, b) :
              /\ Len(CommentLines(w, b)[k]) = 77
              /\ \E i \in 1..77 : IsSpace(CommentLines(w, b)[k][i])

\* the runtime types that differ from what is on the wire
ConvertedTypes == { "bigint", "Date", "Uint8Array" }

\* the properties of the schema that its interface declares with a
\* converted runtime type
ConvertedMembers(S) ==
    IF ~Has(S, "properties") THEN {}
    ELSE { i \in DOMAIN S.properties :
             /\ TypeOf(S.properties[i][2]) = "string"
             /\ StringFormat(S.properties[i][2])[1].s \in ConvertedTypes }

\* the method answers with a schema of the table whose interface is written
AnswersWith(text, schemas, method) ==
    /\ Has(method, "response")
    /\ Has(method.response, "ref")
    /\ HasKey(schemas, method.response.ref)
    /\ DeclaresInterface(text, method.response.ref)

\* C24: when the interface of a method's response schema declares a
\* property as bigint, Date or Uint8Array, the value the method returns
\* holds that property as a value of that type, made by the deserializer
\* from the string on the wire; readOnly properties are no exception.
C24_ResponseDeserialized ==
    pc = "done" =>
      \A m \in DOMAIN methods :
        AnswersWith(w, schema.schemas, methods[m]) =>
          LET S == Lookup(schema.schemas, methods[m].response.ref)
          IN  \A i \in ConvertedMembers(S) :
                LET n == S.properties[i][1]
                    data == ObjectValue([x \in {n} |-> StringValue(<< "1" >>)])
                IN  ReturnedValue(schema.schemas, methods[m], data).v[n].k
                      = StringFormat(S.properties[i][2])[1].s

\* the names the requests and responses of the methods written refer to
MethodRefs ==
    { methods[m].request.ref :
        m \in { k \in DOMAIN methods :
                  Has(methods[k], "request")
                    /\ Has(methods[k].request, "ref") } }
      \cup
    { methods[m].response.ref :
        m \in { k \in DOMAIN methods :
                  Has(methods[k], "response")
                    /\ Has(methods[k].response, "ref") } }

\* every $ref of the document names a schema of its table, and every
\* schema of the table has its key as id
WellFormed(doc) ==
    /\ ~HasUnresolvedRef(doc)
    /\ \A r \in MethodRefs : HasKey(doc.schemas, r)
    /\ \A k \in DOMAIN doc.schemas :
         /\ Has(doc.schemas[k][2], "id")
         /\ doc.schemas[k][2].id = doc.schemas[k][1]

\* C25: on a document whose references all resolve and whose schemas have
\* their keys as ids, every function serializeX or deserializeX that the
\* written module calls (in a codec body, in the reassignment of a
\* parameter or in the return of a method) is declared in the module, and
\* a query on a reference to X answers true only if the query on schema X
\* does.
C25_CalledCodecsDeclared ==
    (pc = "done" /\ WellFormed(given)) =>
      /\ \A i \in PlacesOf(w, "call") : Declares(w, w[i].s, w[i].n)
      /\ \A k \in DOMAIN schema.schemas :
           isConversionRequired(schema.schemas,
                                RefTo(schema.schemas[k][1])).val
             => isConversionRequired(schema.schemas,
                                     schema.schemas[k][2]).val

\* the names of the query parameters over which the body of a method
\* iterates: for (const <param> of opts.<param>)
Iterated(text) ==
    { text[i + 1].n : i \in PlacesOfLit(text, "for (const ") }

\* the places where the interface id declares its member param
MemberDeclarations(text, id, param) ==
    { i \in DOMAIN text :
        /\ text[i] \in { Tok("bare", param), Tok("quoted", param) }
        /\ i < Len(text) /\ text[i + 1] \in { Lit("?"), Lit(": ") }
        /\ \E d \in DOMAIN text : d < i /\ text[d] = Tok("interface", id) }

\* the member declared at place i has an array type: [] is written before
\* the semicolon that ends the declaration
ArrayTyped(text, i) ==
    \E a \in PlacesOfLit(text, "[]") :
      /\ i < a
      /\ \A e \in PlacesOfLit(text, ";") : i < e => a < e

\* C26: for every query parameter over which the body of a method iterates
\* (repeated is true), the property of that param in the method's options
\* interface is declared with an array type, whatever the base type of the
\* parameter is.
C26_RepeatedIsArray ==
    pc = "done" =>
      \A m \in DOMAIN methods :
        \A q \in DOMAIN methods[m].queryParams :
          LET param == methods[m].queryParams[q][1]
          IN  (Flag(methods[m].queryParams[q][2], "repeated")
                 /\ param \in Iterated(w))
                => /\ MemberDeclarations(w, OptionsName(methods[m]), param) # {}
                   /\ \A i \in MemberDeclarations(w, OptionsName(methods[m]),
                                                  param) :
                        ArrayTyped(w, i)

\* C27: primaryName terminates for every name and every list of words, the
\* empty word and words longer than the rest of the name included: every
\* pass of its loop moves the index forward and leaves the length of the
\* name as it is; the result has the length of the name and is the name
\* when case is ignored.
C27_PrimaryNameTerminates ==
    pc = "constructed" =>
      LET words == Split(schema.title, " ")
          trace == PrimaryNameTrace(schema.name, words, 0)
      IN  /\ \A i \in 1..(Len(trace) - 1) :
               /\ trace[i + 1].index > trace[i].index
               /\ Len(trace[i + 1].name) = Len(schema.name)
          /\ Len(trace) <= Len(schema.name) + 1
          /\ Len(name) = Len(schema.name)
          /\ toLowerCase(name) = toLowerCase(schema.name)

\* a name that was changed by a title with an empty word, one of whose
\* words was longer than what was left of the name when the scan tried it
C27_EmptyAndLongWords ==
    /\ pc = "constructed"
    /\ name # schema.name
    /\ LET words == Split(schema.title, " ")
           trace == PrimaryNameTrace(schema.name, words, 0)
       IN  /\ \E k \in DOMAIN words : words[k] = << >>
           /\ \E i \in 1..(Len(trace) - 1) :
                \E k \in DOMAIN words :
                  Len(words[k]) > Len(schema.name) - trace[i].index

====
